---- MODULE Spec2Model ----
(***************************************************************************)
(* A model of the jyotishya-astro-api calculation services:                *)
(*   - services/astrology_service.py : backend selection with fallback     *)
(*   - internal/transits.py          : aspect classification, transit      *)
(*                                     effects                             *)
(*   - internal/matching.py          : Ashtakoot compatibility             *)
(*   - internal/dasha.py             : Vimsottari dasha timeline           *)
(*   - internal/yogas.py             : rashi and house of a body           *)
(*   - internal/divisional.py        : divisional (varga) chart positions  *)
(*   - internal/routes.py            : date handling of the endpoints      *)
(*   - internal/yogas.py             : detect_yogas                        *)
(*   - internal/panchang.py          : calculate_panchang                  *)
(* Each component has its own specification (SpecService, SpecAspect,      *)
(* SpecMatching, SpecDasha, ...); the variables of the other components    *)
(* stay at their initial values.                                           *)
(***************************************************************************)
EXTENDS Integers, Sequences, FiniteSets, TLC

VARIABLES
    \* ---- services/astrology_service.py: one calculate_birth_chart call
    pc,              \* position of the coroutine: "idle", "internal", "external", "done"
    backend,         \* settings.astrology_backend read at entry
    internal_error,  \* local internal_error (None or str(e))
    external_error,  \* local external_error (None or str(e))
    trace,           \* backend calls and their results, in order
    outcome,         \* how the call ended: returned (chart, BackendUsed) or raised
    reqs,            \* number of requests started so far
    \* ---- internal/transits.py: one calculate_aspect call
    transit_lon,     \* argument transit_lon, in whole degrees
    natal_lon,       \* argument natal_lon, in whole degrees
    aspect_data,     \* what calculate_aspect returned
    \* ---- internal/dasha.py: one calculate_vimsottari_dasha call
    moon_longitude,     \* argument moon_longitude, in whole degrees
    birth_date,         \* argument birth_date, in ticks since midnight of the birth day
    years_to_calculate, \* argument years_to_calculate
    now,                \* what datetime.now() read during the call, in ticks
    dasha,              \* what calculate_vimsottari_dasha returned
    \* ---- internal/matching.py: one calculate_compatibility call
    bride_moon_longitude,  \* argument bride_moon_longitude, in whole degrees
    groom_moon_longitude,  \* argument groom_moon_longitude, in whole degrees
    compatibility,         \* what calculate_compatibility returned
    \* ---- internal/yogas.py: one get_rashi_from_lon / get_house_from_lon evaluation
    planet_lon,      \* argument planet_lon, in whole degrees
    asc_lon,         \* argument asc_lon, in whole degrees
    placement,       \* the rashi and house numbers returned
    \* ---- internal/divisional.py: the position functions and calculate_divisional_charts
    longitude,       \* argument longitude of the get_d*_position functions, whole degrees
    positions,       \* what each get_d*_position function returned or raised
    planets_list,    \* argument planets_list of calculate_divisional_charts
    ascendant_lon,   \* argument ascendant_lon of calculate_divisional_charts
    charts,          \* what calculate_divisional_charts returned or raised
    \* ---- internal/transits.py: one calculate_transit_effects call
    natal_planets,   \* argument natal_planets: (name, longitude) pairs in dict order
    transit_time,    \* argument transit_time: omitted (None) or a day
    utc_now,         \* the day datetime.now(timezone.utc) falls on, in days since 2000-01-01
    ephemeris,       \* the sidereal longitudes of the seven true planets, by day
    transit_effects, \* what calculate_transit_effects returned
    \* ---- internal/routes.py: one request to a date-taking endpoint
    endpoint,        \* "daily", "batch" or "panchang"
    request_date,    \* request.date: omitted, or the numbers of a YYYY-MM-DD string
    downstream,      \* how the generator the endpoint calls ends: returns or raises
    response,        \* HTTP status of the answer
    \* ---- internal/yogas.py: one call of detect_yogas
    chart_planets,   \* the argument planets_list
    chart_ascendant, \* the argument ascendant_lon
    yoga_report,     \* what detect_yogas returned
    \* ---- internal/panchang.py: one call of calculate_panchang
    panchang_date,   \* the argument date: its month and weekday
    sun_sidereal,    \* sidereal longitude of the Sun from the ephemeris
    moon_sidereal,   \* sidereal longitude of the Moon from the ephemeris
    panchang         \* what calculate_panchang returned

svc_vars == <<pc, backend, internal_error, external_error, trace, outcome, reqs>>

asp_vars == <<transit_lon, natal_lon, aspect_data>>

dasha_vars == <<moon_longitude, birth_date, years_to_calculate, now, dasha>>

match_vars == <<bride_moon_longitude, groom_moon_longitude, compatibility>>

house_vars == <<planet_lon, asc_lon, placement>>

div_vars == <<longitude, positions, planets_list, ascendant_lon, charts>>

transit_vars == <<natal_planets, transit_time, utc_now, ephemeris, transit_effects>>

route_vars == <<endpoint, request_date, downstream, response>>

yoga_vars == <<chart_planets, chart_ascendant, yoga_report>>

panchang_vars == <<panchang_date, sun_sidereal, moon_sidereal, panchang>>

vars == <<svc_vars, asp_vars, dasha_vars, match_vars, house_vars, div_vars, transit_vars, route_vars, yoga_vars, panchang_vars>>

(***************************************************************************)
(* services/astrology_service.py                                           *)
(***************************************************************************)

\* Number of successive requests the service model handles.
MaxRequests == 8

\* AstrologyBackend values of the settings; anything that is not one of the
\* first three falls through to the mock branch.
AstrologyBackend == {"internal", "freeastrology", "hybrid", "mock"}

\* BackendUsed enum members.
BackendUsed == {"internal", "external", "fallback", "mock"}

None == "None"

\* Exceptions a backend attempt can raise (str(e) is the name here).
InternalExceptions == {"ValueError", "ImportError"}
ExternalExceptions == {"ConnectError"}

\* _try_internal either returns the chart dict or re-raises what was caught.
TryInternalResults == {[kind |-> "chart", exc |-> None]}
    \cup {[kind |-> "raise", exc |-> e] : e \in InternalExceptions}

\* _try_external returns whatever client._post returned (Optional: a dict or
\* None) or re-raises what was caught.
TryExternalResults == {[kind |-> "chart", exc |-> None], [kind |-> "none", exc |-> None]}
    \cup {[kind |-> "raise", exc |-> e] : e \in ExternalExceptions}

NoOutcome == [kind |-> "pending", chart |-> None, backend_used |-> None,
              exc |-> None, internal_error |-> None, external_error |-> None]

Returned(chart, used) ==
    [kind |-> "returned", chart |-> chart, backend_used |-> used,
     exc |-> None, internal_error |-> None, external_error |-> None]

\* raise AstrologyServiceError(message, internal_error=..., external_error=...)
AstrologyServiceError(ie, ee) ==
    [kind |-> "raised", chart |-> None, backend_used |-> None,
     exc |-> "AstrologyServiceError", internal_error |-> ie, external_error |-> ee]

\* An exception of a backend attempt that no handler of calculate_birth_chart
\* catches leaves the coroutine as it is.
Propagates(e) ==
    [kind |-> "raised", chart |-> None, backend_used |-> None,
     exc |-> e, internal_error |-> None, external_error |-> None]

\* Entry of calculate_birth_chart: read the settings, clear the error locals and
\* run to the first await (or to the mock return).
FirstAwait(b) ==
    CASE b = "internal"      -> "internal"
      [] b = "freeastrology" -> "external"
      [] b = "hybrid"        -> "internal"
      [] OTHER               -> "done"

calculate_birth_chart(b) ==
    /\ pc \in {"idle", "done"}
    /\ reqs < MaxRequests
    /\ reqs' = reqs + 1
    /\ backend' = b
    /\ internal_error' = None
    /\ external_error' = None
    /\ pc' = FirstAwait(b)
    /\ trace' = CASE FirstAwait(b) = "internal" -> <<"internal_call">>
                  [] FirstAwait(b) = "external" -> <<"external_call">>
                  [] OTHER -> <<>>
    /\ outcome' = IF FirstAwait(b) = "done" THEN Returned("mock_data", "mock")
                  ELSE NoOutcome
    /\ UNCHANGED <<asp_vars, dasha_vars, match_vars, house_vars, div_vars, transit_vars, route_vars, yoga_vars, panchang_vars>>

\* BackendUsed a chart of the external API gets on the HYBRID path.
HybridExternalTagAlt == "external"
HybridExternalTag == "fallback"

\* What the INTERNAL-only branch does with a failed internal attempt: the call
\* is outside any try block, so the exception of _try_internal is not caught.
InternalOnlyFailure(e) == Propagates(e)

\* The awaited _try_internal finished with r; the coroutine runs on to its next
\* await or to its end.
try_internal(r) ==
    /\ pc = "internal"
    /\ IF backend = "internal"
       THEN /\ outcome' = IF r.kind = "chart"
                          THEN Returned("internal_chart", "internal")
                          ELSE InternalOnlyFailure(r.exc)
            /\ pc' = "done"
            /\ trace' = Append(trace, "internal_" \o r.kind)
            /\ UNCHANGED <<internal_error>>
       ELSE \* HYBRID
            IF r.kind = "chart"
            THEN /\ outcome' = Returned("internal_chart", "internal")
                 /\ pc' = "done"
                 /\ trace' = Append(trace, "internal_" \o r.kind)
                 /\ UNCHANGED <<internal_error>>
            ELSE /\ internal_error' = r.exc
                 /\ pc' = "external"
                 /\ trace' = trace \o <<"internal_" \o r.kind, "external_call">>
                 /\ UNCHANGED <<outcome>>
    /\ UNCHANGED <<backend, external_error, reqs, asp_vars, dasha_vars, match_vars, house_vars, div_vars, transit_vars, route_vars, yoga_vars, panchang_vars>>

\* The awaited _try_external finished with r.
try_external(r) ==
    /\ pc = "external"
    /\ pc' = "done"
    /\ trace' = Append(trace, "external_" \o r.kind)
    /\ IF backend = "freeastrology"
       THEN /\ outcome' = CASE r.kind = "chart" -> Returned("external_chart", "external")
                            [] r.kind = "none" -> AstrologyServiceError(None, "API error")
                            [] OTHER -> Propagates(r.exc)
            /\ UNCHANGED <<external_error>>
       ELSE \* HYBRID
            /\ external_error' = IF r.kind = "raise" THEN r.exc ELSE external_error
            /\ outcome' = IF r.kind = "chart"
                          THEN Returned("external_chart", HybridExternalTag)
                          ELSE AstrologyServiceError(internal_error, external_error')
    /\ UNCHANGED <<backend, internal_error, reqs, asp_vars, dasha_vars, match_vars, house_vars, div_vars, transit_vars, route_vars, yoga_vars, panchang_vars>>

\* The state of a component that a specification does not exercise.
AspectIdle ==
    /\ transit_lon = 0
    /\ natal_lon = 0
    /\ aspect_data = [called |-> FALSE]

DashaIdle ==
    /\ moon_longitude = 0
    /\ birth_date = 0
    /\ years_to_calculate = 0
    /\ now = 0
    /\ dasha = [called |-> FALSE]

MatchingIdle ==
    /\ bride_moon_longitude = 0
    /\ groom_moon_longitude = 0
    /\ compatibility = [called |-> FALSE]

HouseIdle ==
    /\ planet_lon = 0
    /\ asc_lon = 0
    /\ placement = [called |-> FALSE]

DivisionalIdle ==
    /\ longitude = 0
    /\ positions = [called |-> FALSE]
    /\ planets_list = <<>>
    /\ ascendant_lon = 0
    /\ charts = [called |-> FALSE]

TransitIdle ==
    /\ natal_planets = <<>>
    /\ transit_time = [given |-> FALSE]
    /\ utc_now = 0
    /\ ephemeris = <<>>
    /\ transit_effects = [called |-> FALSE]

RouteIdle ==
    /\ endpoint = "daily"
    /\ request_date = [given |-> FALSE]
    /\ downstream = "returns"
    /\ response = [sent |-> FALSE]

YogaIdle ==
    /\ chart_planets = <<>>
    /\ chart_ascendant = 0
    /\ yoga_report = [called |-> FALSE]

PanchangIdle ==
    /\ panchang_date = [month |-> 1, weekday |-> 0]
    /\ sun_sidereal = 0
    /\ moon_sidereal = 0
    /\ panchang = [called |-> FALSE]

ServiceInit ==
    /\ AspectIdle
    /\ DashaIdle
    /\ MatchingIdle
    /\ HouseIdle
    /\ DivisionalIdle
    /\ TransitIdle
    /\ RouteIdle
    /\ YogaIdle
    /\ PanchangIdle
    /\ pc = "idle"
    /\ backend = None
    /\ internal_error = None
    /\ external_error = None
    /\ trace = <<>>
    /\ outcome = NoOutcome
    /\ reqs = 0

ServiceNext ==
    \/ \E b \in AstrologyBackend : calculate_birth_chart(b)
    \/ \E r \in TryInternalResults : try_internal(r)
    \/ \E r \in TryExternalResults : try_external(r)

SpecService == ServiceInit /\ [][ServiceNext]_vars

Range(s) == {s[i] : i \in 1..Len(s)}

\* C1: under the HYBRID strategy the internal engine is attempted first, the
\* external API is called only right after the internal attempt has raised, and
\* a returned result is tagged INTERNAL exactly when its chart came from the
\* internal engine and FALLBACK exactly when it came from the external API
\* after an internal failure.
C1_HybridInternalFirst ==
    backend = "hybrid" =>
        /\ trace # <<>> /\ trace[1] = "internal_call"
        /\ \A i \in 1..Len(trace) :
               trace[i] = "external_call" => (i > 1 /\ trace[i - 1] = "internal_raise")
        /\ outcome.kind = "returned" =>
               /\ outcome.backend_used = "internal" <=> outcome.chart = "internal_chart"
               /\ outcome.backend_used = "fallback" <=>
                      (outcome.chart = "external_chart" /\ "internal_raise" \in Range(trace))

\* A HYBRID call whose internal attempt raised and whose external call returned
\* a chart.
C1_Witness ==
    /\ backend = "hybrid"
    /\ outcome.kind = "returned"
    /\ outcome.chart = "external_chart"
    /\ trace = <<"internal_call", "internal_raise", "external_call", "external_chart">>

\* Every backend the configured strategy permits was attempted and none gave a
\* chart.
AllPermittedFailed ==
    /\ pc = "done"
    /\ backend \in {"internal", "freeastrology", "hybrid"}
    /\ \A i \in 1..Len(trace) : trace[i] \notin {"internal_chart", "external_chart"}

\* C2: for every configured strategy, when every permitted backend fails
\* calculate_birth_chart raises AstrologyServiceError, no other exception type,
\* and returns no chart.
C2_AllFailRaisesServiceError ==
    AllPermittedFailed =>
        /\ outcome.kind = "raised"
        /\ outcome.exc = "AstrologyServiceError"
        /\ outcome.chart = None

(***************************************************************************)
(* internal/transits.py: calculate_aspect                                  *)
(* Longitudes are whole degrees; exactness is kept in hundredths, as       *)
(* round(exactness, 2) reports it.                                         *)
(***************************************************************************)

\* Degrees of the circle.
FullCircle == 360

Longitudes == 0 .. (FullCircle - 1)

Abs(x) == IF x < 0 THEN -x ELSE x

\* ASPECTS, in the dict's (insertion) order, which is the order of the loop.
ASPECTS == <<
    [name |-> "conjunction", angle |-> 0,   orb |-> 8, nature |-> "intense"],
    [name |-> "opposition",  angle |-> 180, orb |-> 8, nature |-> "challenging"],
    [name |-> "trine",       angle |-> 120, orb |-> 6, nature |-> "harmonious"],
    [name |-> "square",      angle |-> 90,  orb |-> 6, nature |-> "challenging"],
    [name |-> "sextile",     angle |-> 60,  orb |-> 4, nature |-> "harmonious"] >>

\* round(n / d, 0) of a non-negative fraction: to the nearest integer, a tie to
\* the even one (Python's round on an exactly representable tie).
RoundHalfEven(n, d) ==
    LET q == n \div d
        r == n % d
    IN  IF 2 * r < d THEN q
        ELSE IF 2 * r > d THEN q + 1
        ELSE IF q % 2 = 0 THEN q ELSE q + 1

\* diff = abs(transit_lon - natal_lon); if diff > 180: diff = 360 - diff
SeparationNoFold(t, n) == Abs(t - n)
Separation(t, n) ==
    LET diff == Abs(t - n)
    IN  IF diff > FullCircle \div 2 THEN FullCircle - diff ELSE diff

\* abs(diff - angle) <= orb
InOrbWidened(diff, a) == Abs(diff - a.angle) <= a.orb + 10
InOrb(diff, a) == Abs(diff - a.angle) <= a.orb

\* exactness = 1 - (abs(diff - angle) / orb), reported as round(exactness, 2):
\* here in hundredths.
ExactnessNoRound(diff, a) == ((a.orb - Abs(diff - a.angle)) * 100) \div a.orb
Exactness(diff, a) == RoundHalfEven((a.orb - Abs(diff - a.angle)) * 100, a.orb)

NoAspect == [called |-> TRUE, aspect |-> None]

\* The loop over ASPECTS.items(): the first aspect whose orb holds diff.
RECURSIVE FirstMatch(_, _)
FirstMatch(diff, i) ==
    IF i > Len(ASPECTS) THEN NoAspect
    ELSE IF InOrb(diff, ASPECTS[i])
         THEN [called |-> TRUE,
               aspect |-> ASPECTS[i].name,
               angle |-> ASPECTS[i].angle,
               actual_angle |-> diff,
               orb |-> Abs(diff - ASPECTS[i].angle),
               exactness |-> Exactness(diff, ASPECTS[i]),
               nature |-> ASPECTS[i].nature]
         ELSE FirstMatch(diff, i + 1)

calculate_aspect(t, n) == FirstMatch(Separation(t, n), 1)

CallCalculateAspect ==
    /\ ~aspect_data.called
    /\ aspect_data' = calculate_aspect(transit_lon, natal_lon)
    /\ UNCHANGED <<transit_lon, natal_lon, svc_vars, dasha_vars, match_vars, house_vars, div_vars, transit_vars, route_vars, yoga_vars, panchang_vars>>

ServiceIdle ==
    /\ pc = "idle"
    /\ backend = None
    /\ internal_error = None
    /\ external_error = None
    /\ trace = <<>>
    /\ outcome = NoOutcome
    /\ reqs = 0

AspectInit ==
    /\ ServiceIdle
    /\ DashaIdle
    /\ MatchingIdle
    /\ HouseIdle
    /\ DivisionalIdle
    /\ TransitIdle
    /\ RouteIdle
    /\ YogaIdle
    /\ PanchangIdle
    /\ transit_lon \in Longitudes
    /\ natal_lon \in Longitudes
    /\ aspect_data = [called |-> FALSE]

AspectNext == CallCalculateAspect

SpecAspect == AspectInit /\ [][AspectNext]_vars

Min(a, b) == IF a <= b THEN a ELSE b

\* The angular separation of two longitudes as the claims state it.
AngularSeparation(a, b) == Min(Abs(a - b), 360 - Abs(a - b))

\* C4 (as claimed): for every pair of longitudes whose angular separation is
\* 95 degrees, calculate_aspect returns no match (None).
C4_Sep95NoMatch ==
    (aspect_data.called /\ AngularSeparation(transit_lon, natal_lon) = 95)
        => aspect_data.aspect = None

\* C4 (amended): for every pair of longitudes whose angular separation is 95
\* degrees, calculate_aspect returns the square aspect (95 lies within 90 +/- 6)
\* with deviation 5 degrees and exactness 0.17.
C4_Sep95IsSquare ==
    (aspect_data.called /\ AngularSeparation(transit_lon, natal_lon) = 95)
        => /\ aspect_data.aspect = "square"
           /\ aspect_data.angle = 90
           /\ aspect_data.actual_angle = 95
           /\ aspect_data.orb = 5
           /\ aspect_data.exactness = 17

\* A separation of 95 degrees across the 0/360 seam, classified.
C4_Witness ==
    /\ aspect_data.called
    /\ transit_lon = 300 /\ natal_lon = 35
    /\ aspect_data.aspect = "square"

ExactAspectName(sep) ==
    CASE sep = 0 -> "conjunction"
      [] sep = 60 -> "sextile"
      [] sep = 90 -> "square"
      [] sep = 120 -> "trine"
      [] sep = 180 -> "opposition"

\* C5: for every pair of longitudes whose angular separation is exactly one of
\* the aspect angles 0, 60, 90, 120, 180, calculate_aspect returns that aspect
\* with exactness 1.0 (separation 0 gives conjunction, 90 gives square).
C5_ExactAngleExactnessOne ==
    (aspect_data.called
        /\ AngularSeparation(transit_lon, natal_lon) \in {0, 60, 90, 120, 180})
        => /\ aspect_data.aspect = ExactAspectName(AngularSeparation(transit_lon, natal_lon))
           /\ aspect_data.angle = AngularSeparation(transit_lon, natal_lon)
           /\ aspect_data.orb = 0
           /\ aspect_data.exactness = 100

\* An exact square whose longitudes lie on both sides of the 0/360 seam.
C5_Witness ==
    /\ aspect_data.called
    /\ transit_lon = 350 /\ natal_lon = 80
    /\ aspect_data.aspect = "square"
    /\ aspect_data.exactness = 100

(***************************************************************************)
(* internal/dasha.py: calculate_vimsottari_dasha                           *)
(* Moon longitudes are whole degrees. Instants are in ticks of 180 s       *)
(* (1/480 day) counted from midnight of the birth day: every period length *)
(* the code computes from a whole-degree longitude is a whole number of    *)
(* ticks. Years are kept in fortieths (remaining_years * 40).              *)
(***************************************************************************)

TicksPerDay == 480

\* 365.25 days, in ticks
TicksPerYear == 175320

\* TOTAL_DASHA_YEARS
TOTAL_DASHA_YEARS == 120

DASHA_YEARS == [Ketu |-> 7, Venus |-> 20, Sun |-> 6, Moon |-> 10, Mars |-> 7,
                Rahu |-> 18, Jupiter |-> 16, Saturn |-> 19, Mercury |-> 17]

DASHA_SEQUENCE ==
    <<"Ketu", "Venus", "Sun", "Moon", "Mars", "Rahu", "Jupiter", "Saturn", "Mercury">>

NAKSHATRA_LORDS == <<
    "Ketu", "Venus", "Sun", "Moon", "Mars", "Rahu", "Jupiter", "Saturn", "Mercury",
    "Ketu", "Venus", "Sun", "Moon", "Mars", "Rahu", "Jupiter", "Saturn", "Mercury",
    "Ketu", "Venus", "Sun", "Moon", "Mars", "Rahu", "Jupiter", "Saturn", "Mercury" >>

NAKSHATRA_NAMES == <<
    "Ashwini", "Bharani", "Krittika", "Rohini", "Mrigashira",
    "Ardra", "Punarvasu", "Pushya", "Ashlesha", "Magha",
    "Purva Phalguni", "Uttara Phalguni", "Hasta", "Chitra", "Swati",
    "Vishakha", "Anuradha", "Jyeshtha", "Mula", "Purva Ashadha",
    "Uttara Ashadha", "Shravana", "Dhanishtha", "Shatabhisha",
    "Purva Bhadrapada", "Uttara Bhadrapada", "Revati" >>

\* list.index(x), 0-based
IndexOf(seq, x) == (CHOOSE i \in 1..Len(seq) : seq[i] = x /\ \A j \in 1..(i - 1) : seq[j] # x) - 1

\* int(moon_longitude / nakshatra_span) with nakshatra_span = 360 / 27: for a
\* whole-degree longitude the double quotient truncates to floor(27 lon / 360).
NakshatraNum(lon) == (lon * 27) \div FullCircle

\* moon_longitude % nakshatra_span, in fortieths of the span. nakshatra_span is
\* the double nearest 40/3, which lies above 40/3, and Python's float % is
\* exact: a longitude of 40, 80, .. 320 degrees, a whole number n of true spans,
\* is less than n * nakshatra_span and leaves a remainder a few ulps short of a
\* whole span (40.0 % (360 / 27) = 13.333333333333332), not 0.
PositionInNakshatra(lon) ==
    IF lon > 0 /\ (3 * lon) % 40 = 0 THEN 40 ELSE (3 * lon) % 40

\* remaining_years = first_dasha_years - progress_in_nakshatra * first_dasha_years,
\* in fortieths of a year
RemainingYears40(lon) ==
    DASHA_YEARS[NAKSHATRA_LORDS[NakshatraNum(lon) + 1]] * (40 - PositionInNakshatra(lon))

\* timedelta(days=years * 365.25) for years given in fortieths, in ticks
YearsToTicks(years40) == (years40 * TicksPerYear) \div 40

\* strftime("%Y-%m-%d"): the calendar day an instant falls on, as a day number
DateOf(t) == t \div TicksPerDay

\* is_current_period: start <= now <= end
is_current_period(start, end, clock) == start <= clock /\ clock <= end

\* (maha_end - maha_start).days
MahaDurationDays(maha_start, maha_end) == (maha_end - maha_start) \div TicksPerDay

\* The loop of calculate_antardashas from its i-th round on.
RECURSIVE AntardashaLoop(_, _, _, _, _)
AntardashaLoop(i, start_index, maha_duration_days, current_date, clock) ==
    IF i >= 9 THEN <<>>
    ELSE LET antar_lord == DASHA_SEQUENCE[((start_index + i) % 9) + 1]
             \* antar_days = maha_duration_days * (years / 120), in ticks
             antar_ticks == (maha_duration_days * DASHA_YEARS[antar_lord] * TicksPerDay)
                               \div TOTAL_DASHA_YEARS
             end_date == current_date + antar_ticks
         IN  << [planet |-> antar_lord,
                 start |-> current_date,
                 end |-> end_date,
                 start_date |-> DateOf(current_date),
                 end_date |-> DateOf(end_date),
                 duration_days |-> (maha_duration_days * DASHA_YEARS[antar_lord])
                                      \div TOTAL_DASHA_YEARS,
                 is_current |-> is_current_period(current_date, end_date, clock)] >>
             \o AntardashaLoop(i + 1, start_index, maha_duration_days, end_date, clock)

calculate_antardashas(mahadasha_lord, maha_start, maha_end, clock) ==
    AntardashaLoop(0, IndexOf(DASHA_SEQUENCE, mahadasha_lord),
                   MahaDurationDays(maha_start, maha_end), maha_start, clock)

\* One entry of the mahadashas list.
Mahadasha(lord, years40, current_date, end_date, clock) ==
    [planet |-> lord,
     start |-> current_date,
     end |-> end_date,
     start_date |-> DateOf(current_date),
     end_date |-> DateOf(end_date),
     years40 |-> years40,
     is_current |-> is_current_period(current_date, end_date, clock),
     antardashas |-> calculate_antardashas(lord, current_date, end_date, clock)]

\* dasha_index = (dasha_index + 1) % 9
NextDashaIndexStuck(dasha_index) == dasha_index
NextDashaIndex(dasha_index) == (dasha_index + 1) % 9

\* The loop condition years_calculated < years_to_calculate, years_calculated
\* in fortieths of a year.
LoopContinuesInclusive(years_calculated40, horizon) == years_calculated40 <= horizon * 40
LoopContinues(years_calculated40, horizon) == years_calculated40 < horizon * 40

\* while years_calculated < years_to_calculate: ...
RECURSIVE SubsequentMahadashas(_, _, _, _, _)
SubsequentMahadashas(dasha_index, current_date, years_calculated40, horizon, clock) ==
    IF LoopContinues(years_calculated40, horizon)
    THEN LET idx == NextDashaIndex(dasha_index)
             dasha_lord == DASHA_SEQUENCE[idx + 1]
             dasha_years == DASHA_YEARS[dasha_lord]
             end_date == current_date + YearsToTicks(dasha_years * 40)
         IN  << Mahadasha(dasha_lord, dasha_years * 40, current_date, end_date, clock) >>
             \o SubsequentMahadashas(idx, end_date, years_calculated40 + dasha_years * 40,
                                     horizon, clock)
    ELSE <<>>

\* The first maha (antar) flagged is_current, as the two nested loops with
\* break find it; 0 when there is none.
FirstCurrent(periods) ==
    IF \E i \in 1..Len(periods) : periods[i].is_current
    THEN CHOOSE i \in 1..Len(periods) :
            periods[i].is_current /\ \A j \in 1..(i - 1) : ~periods[j].is_current
    ELSE 0

calculate_vimsottari_dasha(lon, birth, horizon, clock) ==
    LET nakshatra_num == NakshatraNum(lon)
        first_dasha_lord == NAKSHATRA_LORDS[nakshatra_num + 1]
        remaining40 == RemainingYears40(lon)
        first_end_date == birth + YearsToTicks(remaining40)
        mahadashas ==
            << Mahadasha(first_dasha_lord, remaining40, birth, first_end_date, clock) >>
            \o SubsequentMahadashas(IndexOf(DASHA_SEQUENCE, first_dasha_lord),
                                    first_end_date, remaining40, horizon, clock)
        m == FirstCurrent(mahadashas)
        a == IF m = 0 THEN 0 ELSE FirstCurrent(mahadashas[m].antardashas)
    IN  [called |-> TRUE,
         birth_nakshatra |-> NAKSHATRA_NAMES[nakshatra_num + 1],
         nakshatra_lord |-> first_dasha_lord,
         moon_longitude |-> lon,
         current_mahadasha |-> IF m = 0 THEN None ELSE mahadashas[m].planet,
         current_antardasha |-> IF a = 0 THEN None ELSE mahadashas[m].antardashas[a].planet,
         mahadashas |-> mahadashas,
         total_years_calculated |-> horizon]

\* Number of leading Mahadashas whose boundaries the clock is sampled at.
MaxNowMaha == 2

\* The instants a call is evaluated at: just before birth, and at and one tick
\* after every period boundary of the leading Mahadashas.
ClockSamples(lon, birth, horizon) ==
    LET mahas == calculate_vimsottari_dasha(lon, birth, horizon, 0).mahadashas
        n == IF Len(mahas) < MaxNowMaha THEN Len(mahas) ELSE MaxNowMaha
        bounds == UNION {
            {mahas[i].start, mahas[i].end}
                \cup {mahas[i].antardashas[j].end : j \in 1..9} : i \in 1..n }
    IN  {birth - 1} \cup bounds \cup {b + 1 : b \in bounds}

CallCalculateVimsottariDasha ==
    /\ ~dasha.called
    /\ \E clock \in ClockSamples(moon_longitude, birth_date, years_to_calculate) :
          /\ now' = clock
          /\ dasha' = calculate_vimsottari_dasha(moon_longitude, birth_date,
                                                 years_to_calculate, clock)
    /\ UNCHANGED <<moon_longitude, birth_date, years_to_calculate, svc_vars, asp_vars,
                   match_vars, house_vars, div_vars, transit_vars, route_vars, yoga_vars, panchang_vars>>

\* Birth at midnight or at noon.
BirthTimes == {0, 240}

\* Requested horizons, in years (100 is the default).
Horizons == {1, 100, 130}

DashaInit ==
    /\ ServiceIdle
    /\ AspectIdle
    /\ MatchingIdle
    /\ HouseIdle
    /\ DivisionalIdle
    /\ TransitIdle
    /\ RouteIdle
    /\ YogaIdle
    /\ PanchangIdle
    /\ moon_longitude \in Longitudes
    /\ birth_date \in BirthTimes
    /\ years_to_calculate \in Horizons
    /\ now = 0
    /\ dasha = [called |-> FALSE]

DashaNext == CallCalculateVimsottariDasha

SpecDasha == DashaInit /\ [][DashaNext]_vars

RECURSIVE SumDurationDays(_, _)
SumDurationDays(antardashas, j) ==
    IF j > Len(antardashas) THEN 0
    ELSE antardashas[j].duration_days + SumDurationDays(antardashas, j + 1)

\* C6: for any birth Moon longitude, birth date and Mahadasha of the timeline
\* (the partial first one included), the reported durations (duration_days) of
\* its 9 Antardashas sum to the Mahadasha's own duration in days to within 1 day.
C6_AntarDurationsSumToMaha ==
    dasha.called =>
        \A i \in 1..Len(dasha.mahadashas) :
            LET m == dasha.mahadashas[i]
            IN  Abs(SumDurationDays(m.antardashas, 1) * TicksPerDay - (m.end - m.start))
                    <= TicksPerDay

\* C7: periods are contiguous with no gaps or overlaps: each Mahadasha starts at
\* the instant the previous one ends, each Antardasha starts at the instant the
\* previous one ends, the first Antardasha starts at its Mahadasha's start and
\* the ninth Antardasha ends exactly at its Mahadasha's end.
C7_PeriodsContiguous ==
    dasha.called =>
        \A i \in 1..Len(dasha.mahadashas) :
            LET m == dasha.mahadashas[i]
            IN  /\ i > 1 => m.start = dasha.mahadashas[i - 1].end
                /\ Len(m.antardashas) = 9
                /\ m.antardashas[1].start = m.start
                /\ \A j \in 2..9 : m.antardashas[j].start = m.antardashas[j - 1].end
                /\ m.antardashas[9].end = m.end

\* C8: at a single evaluation instant the periods flagged is_current are exactly
\* those whose half-open interval [start, end) contains the instant, so no two
\* Mahadashas of a timeline and no two Antardashas of a Mahadasha are flagged
\* together, a period boundary included.
C8_CurrentIsHalfOpen ==
    dasha.called =>
        /\ \A i \in 1..Len(dasha.mahadashas) :
              LET m == dasha.mahadashas[i]
              IN  /\ m.is_current <=> (m.start <= now /\ now < m.end)
                  /\ \A j \in 1..9 :
                        m.antardashas[j].is_current <=>
                            (m.antardashas[j].start <= now /\ now < m.antardashas[j].end)
                  /\ Cardinality({j \in 1..9 : m.antardashas[j].is_current}) <= 1
        /\ Cardinality({i \in 1..Len(dasha.mahadashas) : dasha.mahadashas[i].is_current}) <= 1

\* C9: for every Moon longitude the first Mahadasha's ruling body is the lord of
\* the Moon's nakshatra floor(lon / (360/27)), taken from the 9-body cycle, and
\* its duration is (1 - progress) times that body's full duration, with
\* progress = (lon mod span) / span; longitude 10 gives Ketu with 1.75 years.
C9_FirstMahadasha ==
    dasha.called =>
        LET first == dasha.mahadashas[1]
            nak == (3 * moon_longitude) \div 40
            lord == DASHA_SEQUENCE[(nak % 9) + 1]
            \* (1 - progress) in fortieths
            rest == 40 - ((3 * moon_longitude) % 40)
        IN  /\ first.planet = lord
            /\ first.start = birth_date
            /\ (first.end - first.start) * 40 = rest * DASHA_YEARS[lord] * TicksPerYear
            /\ first.years40 = rest * DASHA_YEARS[lord]
            /\ moon_longitude = 10 => (first.planet = "Ketu" /\ first.years40 = 70)

CyclicSuccessor(planet) ==
    CASE planet = "Ketu" -> "Venus"
      [] planet = "Venus" -> "Sun"
      [] planet = "Sun" -> "Moon"
      [] planet = "Moon" -> "Mars"
      [] planet = "Mars" -> "Rahu"
      [] planet = "Rahu" -> "Jupiter"
      [] planet = "Jupiter" -> "Saturn"
      [] planet = "Saturn" -> "Mercury"
      [] planet = "Mercury" -> "Ketu"

RECURSIVE SumSpan(_, _, _)
SumSpan(mahas, from, to) ==
    IF from > to THEN 0
    ELSE (mahas[from].end - mahas[from].start) + SumSpan(mahas, from + 1, to)

\* C10: the ruling bodies of consecutive Mahadashas follow the cyclic order
\* Ketu, Venus, Sun, Moon, Mars, Rahu, Jupiter, Saturn, Mercury; every Mahadasha
\* after the first has its body's full duration; any 9 consecutive full
\* Mahadashas total exactly 120 years.
C10_CyclicOrderFullDurations ==
    dasha.called =>
        LET mahas == dasha.mahadashas
        IN  /\ \A i \in 2..Len(mahas) :
                  /\ mahas[i].planet = CyclicSuccessor(mahas[i - 1].planet)
                  /\ mahas[i].end - mahas[i].start
                        = DASHA_YEARS[mahas[i].planet] * TicksPerYear
                  /\ mahas[i].years40 = DASHA_YEARS[mahas[i].planet] * 40
            /\ \A i \in 2..(Len(mahas) - 8) :
                  SumSpan(mahas, i, i + 8) = 120 * TicksPerYear

\* A timeline with at least 9 full Mahadashas after the partial first one.
C10_Witness ==
    /\ dasha.called
    /\ Len(dasha.mahadashas) >= 10
    /\ dasha.mahadashas[1].end - dasha.mahadashas[1].start
          < DASHA_YEARS[dasha.mahadashas[1].planet] * TicksPerYear

\* C11: for every requested horizon the Mahadasha loop ends with a result whose
\* Mahadashas, laid end to end from birth, reach at least the horizon; the last
\* Mahadasha the loop generates keeps its body's full duration even when it
\* runs past the horizon; and every Mahadasha the loop generates starts
\* strictly before the horizon.
C11_HorizonCoveredNoTruncation ==
    dasha.called =>
        LET mahas == dasha.mahadashas
            n == Len(mahas)
            horizon_end == birth_date + years_to_calculate * TicksPerYear
        IN  /\ n >= 1
            /\ mahas[1].start = birth_date
            /\ \A i \in 2..n : mahas[i].start = mahas[i - 1].end
            /\ mahas[n].end >= horizon_end
            /\ n >= 2 => mahas[n].end - mahas[n].start
                            = DASHA_YEARS[mahas[n].planet] * TicksPerYear
            /\ \A i \in 2..n : mahas[i].start < horizon_end

\* A timeline whose last loop-generated Mahadasha starts before the horizon and
\* ends after it.
C11_Witness ==
    /\ dasha.called
    /\ Len(dasha.mahadashas) >= 2
    /\ LET last == dasha.mahadashas[Len(dasha.mahadashas)]
           horizon_end == birth_date + years_to_calculate * TicksPerYear
       IN  /\ last.start < horizon_end
           /\ last.end > horizon_end
           /\ last.end - last.start = DASHA_YEARS[last.planet] * TicksPerYear

(***************************************************************************)
(* internal/matching.py: calculate_compatibility                           *)
(* Moon longitudes are whole degrees. Scores (score, max_score,            *)
(* total_score) are in half points, since Tara and Graha Maitri award 1.5  *)
(* and 2.5; percentage is in tenths of a percent.                          *)
(***************************************************************************)

HalfPoints(points) == 2 * points

NAKSHATRAS == <<
    "Ashwini", "Bharani", "Krittika", "Rohini", "Mrigashira",
    "Ardra", "Punarvasu", "Pushya", "Ashlesha", "Magha",
    "Purva Phalguni", "Uttara Phalguni", "Hasta", "Chitra", "Swati",
    "Vishakha", "Anuradha", "Jyeshtha", "Mula", "Purva Ashadha",
    "Uttara Ashadha", "Shravana", "Dhanishtha", "Shatabhisha",
    "Purva Bhadrapada", "Uttara Bhadrapada", "Revati" >>

RASHIS == <<
    "Aries", "Taurus", "Gemini", "Cancer", "Leo", "Virgo",
    "Libra", "Scorpio", "Sagittarius", "Capricorn", "Aquarius", "Pisces" >>

RASHI_VARNA ==
    [Cancer |-> 1, Scorpio |-> 1, Pisces |-> 1,
     Aries |-> 2, Leo |-> 2, Sagittarius |-> 2,
     Taurus |-> 3, Virgo |-> 3, Capricorn |-> 3,
     Gemini |-> 4, Libra |-> 4, Aquarius |-> 4]

VASHYA_CATEGORIES ==
    [Aries |-> "Chatushpada", Taurus |-> "Chatushpada", Leo |-> "Vanachara",
     Capricorn |-> "Chatushpada", Sagittarius |-> "Chatushpada",
     Cancer |-> "Keet", Scorpio |-> "Keet", Pisces |-> "Jalchar",
     Gemini |-> "Manava", Virgo |-> "Manava", Libra |-> "Manava",
     Aquarius |-> "Manava"]

NAKSHATRA_YONI == <<
    "Horse", "Elephant", "Sheep", "Snake", "Snake",
    "Dog", "Cat", "Sheep", "Cat", "Rat",
    "Rat", "Cow", "Buffalo", "Tiger", "Buffalo",
    "Tiger", "Deer", "Deer", "Dog", "Monkey",
    "Mongoose", "Monkey", "Lion", "Horse", "Lion",
    "Cow", "Elephant" >>

YONI_ENEMIES == {
    <<"Horse", "Buffalo">>, <<"Elephant", "Lion">>, <<"Sheep", "Monkey">>,
    <<"Snake", "Mongoose">>, <<"Dog", "Deer">>, <<"Cat", "Rat">>,
    <<"Tiger", "Cow">> }

NAKSHATRA_GANA == <<
    "Deva", "Manushya", "Rakshasa", "Manushya", "Deva",
    "Manushya", "Deva", "Deva", "Rakshasa", "Rakshasa",
    "Manushya", "Manushya", "Deva", "Rakshasa", "Deva",
    "Rakshasa", "Deva", "Rakshasa", "Rakshasa", "Manushya",
    "Manushya", "Deva", "Rakshasa", "Rakshasa", "Manushya",
    "Manushya", "Deva" >>

\* A table in which Magha (index 10) repeats the Nadi of Ashwini (index 1).
NAKSHATRA_NADI_SameLord == <<
    "Vata", "Pitta", "Kapha", "Kapha", "Pitta",
    "Vata", "Vata", "Pitta", "Kapha", "Vata",
    "Pitta", "Vata", "Vata", "Pitta", "Kapha",
    "Kapha", "Pitta", "Vata", "Vata", "Pitta",
    "Kapha", "Kapha", "Pitta", "Vata", "Vata",
    "Pitta", "Kapha" >>

NAKSHATRA_NADI == <<
    "Vata", "Pitta", "Kapha", "Kapha", "Pitta",
    "Vata", "Vata", "Pitta", "Kapha", "Kapha",
    "Pitta", "Vata", "Vata", "Pitta", "Kapha",
    "Kapha", "Pitta", "Vata", "Vata", "Pitta",
    "Kapha", "Kapha", "Pitta", "Vata", "Vata",
    "Pitta", "Kapha" >>

RASHI_LORDS ==
    [Aries |-> "Mars", Taurus |-> "Venus", Gemini |-> "Mercury",
     Cancer |-> "Moon", Leo |-> "Sun", Virgo |-> "Mercury",
     Libra |-> "Venus", Scorpio |-> "Mars", Sagittarius |-> "Jupiter",
     Capricorn |-> "Saturn", Aquarius |-> "Saturn", Pisces |-> "Jupiter"]

PLANET_FRIENDS ==
    [Sun |-> {"Moon", "Mars", "Jupiter"},
     Moon |-> {"Sun", "Mercury"},
     Mars |-> {"Sun", "Moon", "Jupiter"},
     Mercury |-> {"Sun", "Venus"},
     Jupiter |-> {"Sun", "Moon", "Mars"},
     Venus |-> {"Mercury", "Saturn"},
     Saturn |-> {"Mercury", "Venus"}]

PLANET_ENEMIES ==
    [Sun |-> {"Venus", "Saturn"},
     Moon |-> {},
     Mars |-> {"Mercury"},
     Mercury |-> {"Moon"},
     Jupiter |-> {"Mercury", "Venus"},
     Venus |-> {"Sun", "Moon"},
     Saturn |-> {"Sun", "Moon", "Mars"}]

\* int(moon_longitude / (360 / 27)): for a whole-degree longitude the double
\* quotient truncates to floor(27 lon / 360). Returns (number 1..27, name).
get_nakshatra_from_moon(lon) ==
    LET nakshatra_num == (lon * 27) \div FullCircle
    IN  [num |-> nakshatra_num + 1, name |-> NAKSHATRAS[nakshatra_num + 1]]

\* int(moon_longitude / 30). Returns (number 1..12, name).
get_rashi_from_moon(lon) ==
    LET rashi_num == lon \div 30
    IN  [num |-> rashi_num + 1, name |-> RASHIS[rashi_num + 1]]

calculate_varna(bride_rashi, groom_rashi) ==
    LET bride_varna == RASHI_VARNA[bride_rashi]
        groom_varna == RASHI_VARNA[groom_rashi]
    IN  [name |-> "Varna", max_score |-> HalfPoints(1),
         score |-> IF groom_varna <= bride_varna THEN HalfPoints(1) ELSE 0,
         bride_value |-> bride_varna, groom_value |-> groom_varna]

\* Vashya testing the rashis before the categories.
calculate_vashya_RashiFirst(bride_rashi, groom_rashi) ==
    LET bride_vashya == VASHYA_CATEGORIES[bride_rashi]
        groom_vashya == VASHYA_CATEGORIES[groom_rashi]
    IN  [name |-> "Vashya", max_score |-> HalfPoints(2),
         score |-> IF bride_rashi = groom_rashi THEN HalfPoints(2)
                   ELSE IF bride_vashya = groom_vashya THEN HalfPoints(2)
                   ELSE HalfPoints(1),
         description |-> IF bride_rashi = groom_rashi
                             THEN "Same rashi - good compatibility"
                         ELSE IF bride_vashya = groom_vashya
                             THEN "Same Vashya type - excellent mutual attraction"
                         ELSE "Partial Vashya compatibility",
         bride_value |-> bride_vashya, groom_value |-> groom_vashya]

calculate_vashya(bride_rashi, groom_rashi) ==
    LET bride_vashya == VASHYA_CATEGORIES[bride_rashi]
        groom_vashya == VASHYA_CATEGORIES[groom_rashi]
    IN  [name |-> "Vashya", max_score |-> HalfPoints(2),
         score |-> IF bride_vashya = groom_vashya THEN HalfPoints(2)
                   ELSE IF bride_rashi = groom_rashi THEN HalfPoints(2)
                   ELSE HalfPoints(1),
         description |-> IF bride_vashya = groom_vashya
                             THEN "Same Vashya type - excellent mutual attraction"
                         ELSE IF bride_rashi = groom_rashi
                             THEN "Same rashi - good compatibility"
                         ELSE "Partial Vashya compatibility",
         bride_value |-> bride_vashya, groom_value |-> groom_vashya]

AuspiciousTaras == {1, 2, 4, 6, 8, 9}

\* Tara awarding 3 points, not 1.5, for each auspicious tara.
calculate_tara_WholePoints(bride_nakshatra, groom_nakshatra) ==
    LET diff1 == ((groom_nakshatra - bride_nakshatra) % 27) + 1
        tara1 == ((diff1 - 1) % 9) + 1
        diff2 == ((bride_nakshatra - groom_nakshatra) % 27) + 1
        tara2 == ((diff2 - 1) % 9) + 1
    IN  [name |-> "Tara", max_score |-> HalfPoints(3),
         score |-> (IF tara1 \in AuspiciousTaras THEN HalfPoints(3) ELSE 0)
                   + (IF tara2 \in AuspiciousTaras THEN HalfPoints(3) ELSE 0),
         bride_tara |-> tara1, groom_tara |-> tara2]

calculate_tara(bride_nakshatra, groom_nakshatra) ==
    LET diff1 == ((groom_nakshatra - bride_nakshatra) % 27) + 1
        tara1 == ((diff1 - 1) % 9) + 1
        diff2 == ((bride_nakshatra - groom_nakshatra) % 27) + 1
        tara2 == ((diff2 - 1) % 9) + 1
    IN  [name |-> "Tara", max_score |-> HalfPoints(3),
         \* 1.5 points for each auspicious tara
         score |-> (IF tara1 \in AuspiciousTaras THEN 3 ELSE 0)
                   + (IF tara2 \in AuspiciousTaras THEN 3 ELSE 0),
         bride_tara |-> tara1, groom_tara |-> tara2]

calculate_yoni(bride_nakshatra, groom_nakshatra) ==
    LET bride_yoni == NAKSHATRA_YONI[bride_nakshatra]
        groom_yoni == NAKSHATRA_YONI[groom_nakshatra]
        is_enemy == \E pair \in YONI_ENEMIES :
                        /\ bride_yoni \in {pair[1], pair[2]}
                        /\ groom_yoni \in {pair[1], pair[2]}
    IN  [name |-> "Yoni", max_score |-> HalfPoints(4),
         score |-> IF bride_yoni = groom_yoni THEN HalfPoints(4)
                   ELSE IF is_enemy THEN 0 ELSE HalfPoints(2),
         bride_value |-> bride_yoni, groom_value |-> groom_yoni]

calculate_graha_maitri(bride_rashi, groom_rashi) ==
    LET bride_lord == RASHI_LORDS[bride_rashi]
        groom_lord == RASHI_LORDS[groom_rashi]
        friend_b == groom_lord \in PLANET_FRIENDS[bride_lord]
        friend_g == bride_lord \in PLANET_FRIENDS[groom_lord]
        enemy_b == groom_lord \in PLANET_ENEMIES[bride_lord]
        enemy_g == bride_lord \in PLANET_ENEMIES[groom_lord]
    IN  [name |-> "Graha Maitri", max_score |-> HalfPoints(5),
         score |-> IF bride_lord = groom_lord THEN HalfPoints(5)
                   ELSE IF friend_b /\ friend_g THEN HalfPoints(5)
                   ELSE IF friend_b \/ friend_g THEN HalfPoints(4)
                   ELSE IF enemy_b /\ enemy_g THEN 0
                   ELSE IF enemy_b \/ enemy_g THEN HalfPoints(1)
                   ELSE 5,  \* 2.5 points
         bride_lord |-> bride_lord, groom_lord |-> groom_lord]

\* Gana granting the 5 points to a Deva bride with a Manushya groom only.
calculate_gana_OneWay(bride_nakshatra, groom_nakshatra) ==
    LET bride_gana == NAKSHATRA_GANA[bride_nakshatra]
        groom_gana == NAKSHATRA_GANA[groom_nakshatra]
    IN  [name |-> "Gana", max_score |-> HalfPoints(6),
         score |-> IF bride_gana = groom_gana THEN HalfPoints(6)
                   ELSE IF bride_gana = "Deva" /\ groom_gana = "Manushya" THEN HalfPoints(5)
                   ELSE IF "Rakshasa" \in {bride_gana, groom_gana} /\ bride_gana # groom_gana
                        THEN 0
                   ELSE HalfPoints(3),
         bride_value |-> bride_gana, groom_value |-> groom_gana]

calculate_gana(bride_nakshatra, groom_nakshatra) ==
    LET bride_gana == NAKSHATRA_GANA[bride_nakshatra]
        groom_gana == NAKSHATRA_GANA[groom_nakshatra]
    IN  [name |-> "Gana", max_score |-> HalfPoints(6),
         score |-> IF bride_gana = groom_gana THEN HalfPoints(6)
                   ELSE IF bride_gana = "Deva" /\ groom_gana = "Manushya" THEN HalfPoints(5)
                   ELSE IF bride_gana = "Manushya" /\ groom_gana = "Deva" THEN HalfPoints(5)
                   ELSE IF "Rakshasa" \in {bride_gana, groom_gana} /\ bride_gana # groom_gana
                        THEN 0
                   ELSE HalfPoints(3),
         bride_value |-> bride_gana, groom_value |-> groom_gana]

BhakootInauspicious == {<<2, 12>>, <<5, 9>>, <<6, 8>>}

calculate_bhakoot(bride_rashi_num, groom_rashi_num) ==
    LET diff == ((groom_rashi_num - bride_rashi_num) % 12) + 1
        reverse_diff == ((bride_rashi_num - groom_rashi_num) % 12) + 1
        is_inauspicious == \E pair \in BhakootInauspicious :
                               /\ diff \in {pair[1], pair[2]}
                               /\ reverse_diff \in {pair[1], pair[2]}
    IN  [name |-> "Bhakoot", max_score |-> HalfPoints(7),
         score |-> IF is_inauspicious THEN 0 ELSE HalfPoints(7),
         position |-> diff]

\* Nadi scored on the nakshatra numbers instead of the Nadi they belong to.
calculate_nadi_ByNakshatra(bride_nakshatra, groom_nakshatra) ==
    LET bride_nadi == NAKSHATRA_NADI[bride_nakshatra]
        groom_nadi == NAKSHATRA_NADI[groom_nakshatra]
    IN  [name |-> "Nadi", max_score |-> HalfPoints(8),
         score |-> IF bride_nakshatra # groom_nakshatra THEN 0 ELSE HalfPoints(8),
         bride_value |-> bride_nadi, groom_value |-> groom_nadi,
         description |-> IF bride_nakshatra # groom_nakshatra
                         THEN "Same Nadi - Nadi Dosha present"
                         ELSE "Different Nadis - excellent for progeny"]

calculate_nadi(bride_nakshatra, groom_nakshatra) ==
    LET bride_nadi == NAKSHATRA_NADI[bride_nakshatra]
        groom_nadi == NAKSHATRA_NADI[groom_nakshatra]
    IN  [name |-> "Nadi", max_score |-> HalfPoints(8),
         score |-> IF bride_nadi = groom_nadi THEN 0 ELSE HalfPoints(8),
         bride_value |-> bride_nadi, groom_value |-> groom_nadi,
         description |-> IF bride_nadi = groom_nadi
                         THEN "Same Nadi - Nadi Dosha present"
                         ELSE "Different Nadis - excellent for progeny"]

RECURSIVE SumScores(_, _)
SumScores(koots, i) ==
    IF i > Len(koots) THEN 0 ELSE koots[i].score + SumScores(koots, i + 1)

\* total_score >= 25 / 18 / 12, in half points
Verdict(total_score) ==
    IF total_score >= HalfPoints(25) THEN "Excellent Match"
    ELSE IF total_score >= HalfPoints(18) THEN "Good Match"
    ELSE IF total_score >= HalfPoints(12) THEN "Average Match"
    ELSE "Below Average Match"

calculate_compatibility(bride_lon, groom_lon) ==
    LET bride_nakshatra == get_nakshatra_from_moon(bride_lon)
        groom_nakshatra == get_nakshatra_from_moon(groom_lon)
        bride_rashi == get_rashi_from_moon(bride_lon)
        groom_rashi == get_rashi_from_moon(groom_lon)
        koots == << calculate_varna(bride_rashi.name, groom_rashi.name),
                    calculate_vashya(bride_rashi.name, groom_rashi.name),
                    calculate_tara(bride_nakshatra.num, groom_nakshatra.num),
                    calculate_yoni(bride_nakshatra.num, groom_nakshatra.num),
                    calculate_graha_maitri(bride_rashi.name, groom_rashi.name),
                    calculate_gana(bride_nakshatra.num, groom_nakshatra.num),
                    calculate_bhakoot(bride_rashi.num, groom_rashi.num),
                    calculate_nadi(bride_nakshatra.num, groom_nakshatra.num) >>
        total_score == SumScores(koots, 1)
    IN  [called |-> TRUE,
         bride |-> [nakshatra |-> bride_nakshatra.name,
                    nakshatra_number |-> bride_nakshatra.num,
                    rashi |-> bride_rashi.name,
                    rashi_number |-> bride_rashi.num,
                    moon_longitude |-> bride_lon],
         groom |-> [nakshatra |-> groom_nakshatra.name,
                    nakshatra_number |-> groom_nakshatra.num,
                    rashi |-> groom_rashi.name,
                    rashi_number |-> groom_rashi.num,
                    moon_longitude |-> groom_lon],
         koots |-> koots,
         total_score |-> total_score,
         max_score |-> HalfPoints(36),
         \* round((total_score / max_score) * 100, 1), in tenths of a percent
         percentage |-> RoundHalfEven(total_score * 1000, HalfPoints(36)),
         verdict |-> Verdict(total_score)]

CallCalculateCompatibility ==
    /\ ~compatibility.called
    /\ compatibility' = calculate_compatibility(bride_moon_longitude, groom_moon_longitude)
    /\ UNCHANGED <<bride_moon_longitude, groom_moon_longitude, svc_vars, asp_vars, dasha_vars,
                   house_vars, div_vars, transit_vars, route_vars, yoga_vars, panchang_vars>>

MatchingInit ==
    /\ ServiceIdle
    /\ AspectIdle
    /\ DashaIdle
    /\ HouseIdle
    /\ DivisionalIdle
    /\ TransitIdle
    /\ RouteIdle
    /\ YogaIdle
    /\ PanchangIdle
    /\ bride_moon_longitude \in Longitudes
    /\ groom_moon_longitude \in Longitudes
    /\ compatibility = [called |-> FALSE]

MatchingNext == CallCalculateCompatibility

SpecMatching == MatchingInit /\ [][MatchingNext]_vars

\* C3 (as claimed): for bride Moon longitude 10 (nakshatra 1, Ashwini) and groom
\* Moon longitude 130 (nakshatra 10, Magha) both nakshatras have the same Nadi
\* and calculate_compatibility reports a Nadi koot score of 0.
C3_AshwiniMaghaSameNadi ==
    (compatibility.called /\ bride_moon_longitude = 10 /\ groom_moon_longitude = 130)
        => /\ compatibility.bride.nakshatra_number = 1
           /\ compatibility.groom.nakshatra_number = 10
           /\ compatibility.koots[8].bride_value = compatibility.koots[8].groom_value
           /\ compatibility.koots[8].score = 0

\* C3 (amended): for bride Moon longitude 10 (nakshatra 1, Ashwini) and groom
\* Moon longitude 130 (nakshatra 10, Magha) the Nadis differ (Ashwini is Vata,
\* Magha is Kapha) and calculate_compatibility reports a Nadi koot score of 8.
C3_AshwiniMaghaDifferentNadi ==
    (compatibility.called /\ bride_moon_longitude = 10 /\ groom_moon_longitude = 130)
        => /\ compatibility.bride.nakshatra_number = 1
           /\ compatibility.bride.nakshatra = "Ashwini"
           /\ compatibility.groom.nakshatra_number = 10
           /\ compatibility.groom.nakshatra = "Magha"
           /\ compatibility.koots[8].name = "Nadi"
           /\ compatibility.koots[8].bride_value = "Vata"
           /\ compatibility.koots[8].groom_value = "Kapha"
           /\ compatibility.koots[8].score = 16

\* The scenario after the call.
C3_Witness ==
    /\ compatibility.called
    /\ bride_moon_longitude = 10
    /\ groom_moon_longitude = 130
    /\ compatibility.koots[8].name = "Nadi"

\* C12: for every pair of Moon longitudes each of the 8 koot scores lies between
\* 0 and that koot's maximum (1, 2, 3, 4, 5, 6, 7, 8 points) and the total score
\* lies between 0 and 36 points.
C12_ScoresWithinBounds ==
    compatibility.called =>
        /\ Len(compatibility.koots) = 8
        /\ \A i \in 1..8 :
              /\ compatibility.koots[i].max_score = HalfPoints(i)
              /\ compatibility.koots[i].score >= 0
              /\ compatibility.koots[i].score <= HalfPoints(i)
        /\ compatibility.total_score >= 0
        /\ compatibility.total_score <= HalfPoints(36)
        /\ compatibility.max_score = HalfPoints(36)

\* A pair whose Tara and Nadi scores are both at their maximum, the total
\* being 35 points (the highest any pair attains).
C12_Witness ==
    /\ compatibility.called
    /\ compatibility.koots[3].score = HalfPoints(3)
    /\ compatibility.koots[8].score = HalfPoints(8)
    /\ compatibility.total_score = HalfPoints(35)

\* C13: whenever bride and groom have the same Moon longitude, the Nadi koot
\* score is 0 and the Yoni koot score is its maximum, 4 points.
C13_SameLongitudeNadiZeroYoniMax ==
    (compatibility.called /\ bride_moon_longitude = groom_moon_longitude)
        => /\ compatibility.koots[8].name = "Nadi"
           /\ compatibility.koots[8].score = 0
           /\ compatibility.koots[4].name = "Yoni"
           /\ compatibility.koots[4].score = HalfPoints(4)

\* A call with both Moons at the same longitude.
C13_Witness ==
    /\ compatibility.called
    /\ bride_moon_longitude = groom_moon_longitude
    /\ bride_moon_longitude = 227
    /\ compatibility.bride.nakshatra = compatibility.groom.nakshatra

(***************************************************************************)
(* internal/yogas.py: get_rashi_from_lon, get_house_from_lon               *)
(* Longitudes are whole degrees.                                           *)
(***************************************************************************)

\* int(longitude / 30) + 1
get_rashi_from_lon(lon) == (lon \div 30) + 1

\* diff = (planet_lon - asc_lon) % 360; int(diff / 30) + 1
get_house_from_lon(p_lon, a_lon) ==
    LET diff == (p_lon - a_lon) % FullCircle
    IN  (diff \div 30) + 1

\* The placement detect_yogas computes for one body: its rashi, its house, and
\* the rashi of the ascendant.
CallGetHouseFromLon ==
    /\ ~placement.called
    /\ placement' = [called |-> TRUE,
                     asc_rashi |-> get_rashi_from_lon(asc_lon),
                     rashi |-> get_rashi_from_lon(planet_lon),
                     house |-> get_house_from_lon(planet_lon, asc_lon)]
    /\ UNCHANGED <<planet_lon, asc_lon, svc_vars, asp_vars, dasha_vars, match_vars, div_vars, transit_vars, route_vars, yoga_vars, panchang_vars>>

HouseInit ==
    /\ ServiceIdle
    /\ AspectIdle
    /\ DashaIdle
    /\ MatchingIdle
    /\ DivisionalIdle
    /\ TransitIdle
    /\ RouteIdle
    /\ YogaIdle
    /\ PanchangIdle
    /\ planet_lon \in Longitudes
    /\ asc_lon \in Longitudes
    /\ placement = [called |-> FALSE]

HouseNext == CallGetHouseFromLon

SpecHouse == HouseInit /\ [][HouseNext]_vars

\* C14: for every ascendant longitude and body longitude the house number given
\* to the body is the house whose whole-sign sign is the body's sign:
\* body sign = ((ascendant sign - 1 + house - 1) mod 12) + 1.
C14_HouseIsWholeSign ==
    placement.called =>
        /\ placement.house \in 1..12
        /\ placement.rashi = ((placement.asc_rashi - 1 + placement.house - 1) % 12) + 1

(***************************************************************************)
(* internal/divisional.py                                                  *)
(* Longitudes are whole degrees. A call of a position function yields      *)
(* either the dict it returns or [error |-> the exception it raises].      *)
(***************************************************************************)

SIGNS == <<
    "Aries", "Taurus", "Gemini", "Cancer", "Leo", "Virgo",
    "Libra", "Scorpio", "Sagittarius", "Capricorn", "Aquarius", "Pisces" >>

DIV_RASHI_LORDS == <<
    "Mars", "Venus", "Mercury", "Moon",
    "Sun", "Mercury", "Venus", "Mars",
    "Jupiter", "Saturn", "Saturn", "Jupiter" >>

Raised(exception) == [error |-> exception]

IsError(result) == "error" \in DOMAIN result

\* int(x / d) for whole x and d > 0: truncation toward zero
IntDiv(x, d) == IF x >= 0 THEN x \div d ELSE 0 - ((0 - x) \div d)

\* rashi = int(longitude / 30) + 1
RawRashi(lon) == IntDiv(lon, 30) + 1

\* degree_in_sign = longitude % 30 (Python %: the sign of the divisor)
DegreeInSign(lon) == lon % 30

\* The tail every position dict shares: "sign": SIGNS[rashi - 1] raises
\* IndexError unless -12 <= rashi - 1 <= 11 (a negative index counts from the
\* end), then "lord": RASHI_LORDS[rashi] raises KeyError unless 1 <= rashi <= 12.
SignAndLord(chart, rashi, fields) ==
    IF rashi - 1 > 11 \/ rashi - 1 < 0 - 12 THEN Raised("IndexError")
    ELSE IF rashi \notin 1..12 THEN Raised("KeyError")
    ELSE [f \in {"chart", "rashi", "sign", "lord"} \cup DOMAIN fields |->
            CASE f = "chart" -> chart
              [] f = "rashi" -> rashi
              [] f = "sign" -> SIGNS[rashi]
              [] f = "lord" -> DIV_RASHI_LORDS[rashi]
              [] OTHER -> fields[f]]

get_d1_position(lon) ==
    SignAndLord("D1", RawRashi(lon), [degree |-> DegreeInSign(lon)])

\* if rashi in [1, 5, 9] .. elif .. else: the else branch takes every other
\* value of rashi, in or out of 1..12
StartSignAllWater(rashi) == 4
\* Navamsas counted from the sign itself.
StartSignOwnSign(rashi) == rashi
StartSign(rashi) ==
    IF rashi \in {1, 5, 9} THEN 1
    ELSE IF rashi \in {2, 6, 10} THEN 10
    ELSE IF rashi \in {3, 7, 11} THEN 7
    ELSE 4

get_d9_position(lon) ==
    LET rashi == RawRashi(lon)
        \* int(degree_in_sign / (30 / 9))
        navamsa_num == (DegreeInSign(lon) * 9) \div 30
        d9_rashi == ((StartSign(rashi) - 1 + navamsa_num) % 12) + 1
    IN  SignAndLord("D9", d9_rashi, [navamsa_number |-> navamsa_num + 1])

get_d10_position(lon) ==
    LET rashi == RawRashi(lon)
        dasamsa_num == DegreeInSign(lon) \div 3
        start_sign == IF rashi % 2 = 1 THEN rashi ELSE ((rashi - 1 + 8) % 12) + 1
        d10_rashi == ((start_sign - 1 + dasamsa_num) % 12) + 1
    IN  SignAndLord("D10", d10_rashi, [dasamsa_number |-> dasamsa_num + 1])

get_d2_position(lon) ==
    LET rashi == RawRashi(lon)
        hora_num == IF DegreeInSign(lon) < 15 THEN 0 ELSE 1
        d2_rashi == IF rashi % 2 = 1
                    THEN (IF hora_num = 0 THEN 5 ELSE 4)
                    ELSE (IF hora_num = 0 THEN 4 ELSE 5)
    IN  SignAndLord("D2", d2_rashi, [hora |-> IF d2_rashi = 5 THEN "Sun" ELSE "Moon"])

get_d3_position(lon) ==
    LET rashi == RawRashi(lon)
        drekkana_num == DegreeInSign(lon) \div 10
        d3_rashi == IF drekkana_num = 0 THEN rashi
                    ELSE IF drekkana_num = 1 THEN ((rashi - 1 + 4) % 12) + 1
                    ELSE ((rashi - 1 + 8) % 12) + 1
    IN  SignAndLord("D3", d3_rashi, [drekkana_number |-> drekkana_num + 1])

get_d7_position(lon) ==
    LET rashi == RawRashi(lon)
        \* int(degree_in_sign / (30 / 7))
        saptamsa_num == (DegreeInSign(lon) * 7) \div 30
        start_sign == IF rashi % 2 = 1 THEN rashi ELSE ((rashi - 1 + 6) % 12) + 1
        d7_rashi == ((start_sign - 1 + saptamsa_num) % 12) + 1
    IN  SignAndLord("D7", d7_rashi, [saptamsa_number |-> saptamsa_num + 1])

get_d12_position(lon) ==
    LET rashi == RawRashi(lon)
        \* int(degree_in_sign / 2.5)
        dwadasamsa_num == (DegreeInSign(lon) * 2) \div 5
        d12_rashi == ((rashi - 1 + dwadasamsa_num) % 12) + 1
    IN  SignAndLord("D12", d12_rashi, [dwadasamsa_number |-> dwadasamsa_num + 1])

\* The charts, in the order calculate_divisional_charts computes them.
ChartKeys == <<"D1", "D2", "D3", "D7", "D9", "D10", "D12">>

PositionIn(chart_key, lon) ==
    CASE chart_key = "D1" -> get_d1_position(lon)
      [] chart_key = "D2" -> get_d2_position(lon)
      [] chart_key = "D3" -> get_d3_position(lon)
      [] chart_key = "D7" -> get_d7_position(lon)
      [] chart_key = "D9" -> get_d9_position(lon)
      [] chart_key = "D10" -> get_d10_position(lon)
      [] chart_key = "D12" -> get_d12_position(lon)

\* Values of a planet dict's "fullDegree" / "full_degree" entry.
PyNone == [none |-> TRUE]

Float(v) == [float |-> v]

\* dict.get(key, default)
DictGet(d, key, default) == IF key \in DOMAIN d THEN d[key] ELSE default

\* lon = planet.get("fullDegree", planet.get("full_degree", 0))
PlanetLon(planet) ==
    DictGet(planet, "fullDegree", DictGet(planet, "full_degree", Float(0)))

\* The first exception the seven position functions raise for lon, called in
\* the order of ChartKeys; None when all seven return.
RECURSIVE FirstError(_, _)
FirstError(lon, i) ==
    IF i > Len(ChartKeys) THEN None
    ELSE IF IsError(PositionIn(ChartKeys[i], lon)) THEN PositionIn(ChartKeys[i], lon).error
    ELSE FirstError(lon, i + 1)

\* charts[chart_key]["positions"][name] = get_d*_position(lon), for all charts
PutPositions(acc, name, lon) ==
    [k \in DOMAIN acc |->
        [n \in DOMAIN acc[k] \cup {name} |->
            IF n = name THEN PositionIn(k, lon) ELSE acc[k][n]]]

\* for planet in planets_list: ..., from the i-th planet on; acc maps each chart
\* key to its positions so far. Yields the final positions or the exception.
RECURSIVE PlanetLoop(_, _, _)
PlanetLoop(planets, i, acc) ==
    IF i > Len(planets) THEN acc
    ELSE LET planet == planets[i]
             name == DictGet(planet, "name", "")
             lon == PlanetLon(planet)
         IN  IF name = "" \/ lon = PyNone
             THEN PlanetLoop(planets, i + 1, acc)
             ELSE IF FirstError(lon.float, 1) # None
             THEN Raised(FirstError(lon.float, 1))
             ELSE PlanetLoop(planets, i + 1, PutPositions(acc, name, lon.float))

calculate_divisional_charts(planets, asc) ==
    IF FirstError(asc, 1) # None
    THEN [called |-> TRUE, error |-> FirstError(asc, 1)]
    ELSE LET asc_positions ==
                 [k \in {ChartKeys[i] : i \in 1..Len(ChartKeys)} |->
                     [n \in {"Ascendant"} |-> PositionIn(k, asc)]]
             result == PlanetLoop(planets, 1, asc_positions)
         IN  IF IsError(result)
             THEN [called |-> TRUE, error |-> result.error]
             ELSE [called |-> TRUE,
                   charts |-> [k \in DOMAIN result |->
                                  [positions |-> result[k],
                                   ascendant_sign |-> result[k]["Ascendant"].sign]],
                   available_charts |-> ChartKeys]

\* One call of each position function on the same longitude.
CallPositionFunctions ==
    /\ ~positions.called
    /\ positions' = [called |-> TRUE,
                     D1 |-> get_d1_position(longitude),
                     D2 |-> get_d2_position(longitude),
                     D3 |-> get_d3_position(longitude),
                     D7 |-> get_d7_position(longitude),
                     D9 |-> get_d9_position(longitude),
                     D10 |-> get_d10_position(longitude),
                     D12 |-> get_d12_position(longitude)]
    /\ UNCHANGED <<longitude, planets_list, ascendant_lon, charts,
                   svc_vars, asp_vars, dasha_vars, match_vars, house_vars, transit_vars, route_vars, yoga_vars, panchang_vars>>

CallCalculateDivisionalCharts ==
    /\ ~charts.called
    /\ charts' = calculate_divisional_charts(planets_list, ascendant_lon)
    /\ UNCHANGED <<longitude, positions, planets_list, ascendant_lon,
                   svc_vars, asp_vars, dasha_vars, match_vars, house_vars, transit_vars, route_vars, yoga_vars, panchang_vars>>

\* How far below 0 and beyond 359 the longitudes handed to the position
\* functions range, in degrees.
OutOfRange == 60

DivLongitudes == (0 - OutOfRange) .. (FullCircle - 1 + OutOfRange)

\* A planet dict built from optional entries: <<>> for an absent key, <<v>> for
\* a key with value v.
MakeDict(name, fullDegree, full_degree) ==
    LET keys == (IF name = <<>> THEN {} ELSE {"name"})
                \cup (IF fullDegree = <<>> THEN {} ELSE {"fullDegree"})
                \cup (IF full_degree = <<>> THEN {} ELSE {"full_degree"})
    IN  [k \in keys |-> CASE k = "name" -> name[1]
                          [] k = "fullDegree" -> fullDegree[1]
                          [] k = "full_degree" -> full_degree[1]]

PlanetDicts ==
    { MakeDict(name, fullDegree, full_degree) :
        name \in {<<>>, <<"Sun">>},
        fullDegree \in {<<>>, <<PyNone>>, <<Float(0)>>, <<Float(100)>>, <<Float(370)>>},
        full_degree \in {<<>>, <<PyNone>>, <<Float(100)>>} }

\* No planet, one planet, or one planet followed by a well-formed Moon.
PlanetLists ==
    {<<>>} \cup {<<p>> : p \in PlanetDicts}
           \cup {<<p, [name |-> "Moon", fullDegree |-> Float(200)]>> : p \in PlanetDicts}

\* DivisionalRequest admits 0 <= ascendant_longitude <= 360.
AscendantLongitudes == {0, 100, FullCircle}

DivisionalInit ==
    /\ ServiceIdle
    /\ AspectIdle
    /\ DashaIdle
    /\ MatchingIdle
    /\ HouseIdle
    /\ TransitIdle
    /\ RouteIdle
    /\ YogaIdle
    /\ PanchangIdle
    /\ longitude \in DivLongitudes
    /\ positions = [called |-> FALSE]
    /\ planets_list \in PlanetLists
    /\ ascendant_lon \in AscendantLongitudes
    /\ charts = [called |-> FALSE]

DivisionalNext ==
    \/ CallPositionFunctions
    \/ CallCalculateDivisionalCharts

SpecDivisional == DivisionalInit /\ [][DivisionalNext]_vars

\* C15: every position function (D1, D2, D3, D7, D9, D10, D12) raises an error
\* for a longitude below 0 or at or above 360 instead of returning a position,
\* and raises no error for a longitude in [0, 360).
C15_OutOfRangeRejected ==
    positions.called =>
        \A i \in 1..Len(ChartKeys) :
            IsError(positions[ChartKeys[i]])
                <=> (longitude < 0 \/ longitude >= FullCircle)

\* C16: a named planet entry that carries no longitude (neither "fullDegree"
\* nor "full_degree") is never given a position: calculate_divisional_charts
\* either raises or leaves that planet out of every chart.
C16_MissingLongitudeNotPlaced ==
    charts.called =>
        \A i \in 1..Len(planets_list) :
            LET planet == planets_list[i]
            IN  ("name" \in DOMAIN planet
                    /\ "fullDegree" \notin DOMAIN planet
                    /\ "full_degree" \notin DOMAIN planet)
                => \/ "error" \in DOMAIN charts
                   \/ \A j \in 1..Len(ChartKeys) :
                         planet.name \notin DOMAIN charts.charts[ChartKeys[j]].positions

\* The sign a D9 subdivision count starts from, by the element of the sign.
NavamsaStart(sign) ==
    CASE sign \in {1, 5, 9} -> "Aries"
      [] sign \in {2, 6, 10} -> "Capricorn"
      [] sign \in {3, 7, 11} -> "Libra"
      [] sign \in {4, 8, 12} -> "Cancer"

\* C19: for every D9 input longitude in [0, 360) the sign's 30 degrees are
\* split into 9 equal parts; part 0 maps to Aries for fire signs, Capricorn for
\* earth signs, Libra for air signs and Cancer for water signs; part k maps to
\* the k-th sign after that start, cyclically; the result is in 1..12.
C19_NavamsaByElement ==
    (positions.called /\ longitude \in 0..(FullCircle - 1)) =>
        LET sign == (longitude \div 30) + 1
            degree == longitude - 30 * (sign - 1)
            \* part k covers [k * 30/9, (k + 1) * 30/9)
            part == CHOOSE k \in 0..8 : 10 * k <= 3 * degree /\ 3 * degree < 10 * (k + 1)
            start == IndexOf(SIGNS, NavamsaStart(sign)) + 1
            d9 == positions.D9
        IN  /\ ~IsError(d9)
            /\ d9.rashi \in 1..12
            /\ d9.navamsa_number = part + 1
            /\ d9.rashi = ((start - 1 + part) % 12) + 1
            /\ d9.sign = SIGNS[d9.rashi]
            /\ part = 0 => d9.sign = NavamsaStart(sign)

\* 17 degrees Taurus: an earth sign, part 5, counted from Capricorn past Pisces
\* to Gemini.
C19_Witness ==
    /\ positions.called
    /\ longitude = 47
    /\ positions.D9.navamsa_number = 6
    /\ positions.D9.sign = "Gemini"

(***************************************************************************)
(* internal/transits.py: get_current_transits, calculate_transit_effects   *)
(* Longitudes are whole degrees, days count from 2000-01-01 (UTC). The     *)
(* ephemeris (planetary.py, skyfield) is an input: ephemeris[day] gives    *)
(* the sidereal longitudes of the seven true planets on that day.          *)
(***************************************************************************)

\* planet_keys, in dict order
PlanetKeys == <<"Sun", "Moon", "Mars", "Mercury", "Jupiter", "Venus", "Saturn">>

SLOW_PLANETS == {"Jupiter", "Saturn", "Rahu", "Ketu"}

\* rahu_movement = (days_since_2000 / 365.25) * 19.3; rahu_lon = (0 - rahu_movement) % 360.
\* 19.3 / 365.25 = 386 / 7305: whole on the days sampled (multiples of 7305).
RahuLon(days_since_2000) == (0 - ((days_since_2000 * 386) \div 7305)) % FullCircle

KetuLon(rahu_lon) == (rahu_lon + 180) % FullCircle

\* The transits dict for the day datetime.now(timezone.utc) falls on, as
\* (name, longitude) pairs in insertion order.
get_current_transits(day) ==
    [i \in 1..Len(PlanetKeys) |-> <<PlanetKeys[i], ephemeris[day][PlanetKeys[i]]>>]
        \o << <<"Rahu", RahuLon(day)>>, <<"Ketu", KetuLon(RahuLon(day))>> >>

\* significance = "major" if is_slow else "minor"; if exactness > 0.8:
\* "critical" if is_slow else "notable"
Significance(transit_planet, exactness) ==
    LET is_slow == transit_planet \in SLOW_PLANETS
    IN  IF exactness > 80
        THEN (IF is_slow THEN "critical" ELSE "notable")
        ELSE (IF is_slow THEN "major" ELSE "minor")

\* The body of the two nested loops for one (transit planet, natal planet)
\* pair: the entry appended to active_transits, or nothing. The texts
\* "effect" and "significations" are lookups by (nature, transit_planet).
TransitEntry(transit, natal) ==
    LET aspect_found == calculate_aspect(transit[2], natal[2])
    IN  IF aspect_found.aspect = None THEN <<>>
        ELSE << [transit_planet |-> transit[1],
                 transit_longitude |-> transit[2],
                 natal_planet |-> natal[1],
                 natal_longitude |-> natal[2],
                 aspect |-> aspect_found.aspect,
                 nature |-> aspect_found.nature,
                 exactness |-> aspect_found.exactness,
                 orb |-> aspect_found.orb,
                 significance |-> Significance(transit[1], aspect_found.exactness)] >>

\* for transit_planet, transit_lon in current_transits.items():
\*     for natal_planet, natal_lon in natal_planets.items(): ...
RECURSIVE AspectLoop(_, _, _, _)
AspectLoop(current_transits, natal, i, j) ==
    IF i > Len(current_transits) THEN <<>>
    ELSE IF j > Len(natal) THEN AspectLoop(current_transits, natal, i + 1, 1)
    ELSE TransitEntry(current_transits[i], natal[j])
            \o AspectLoop(current_transits, natal, i, j + 1)

priority_order(significance) ==
    CASE significance = "critical" -> 0
      [] significance = "major" -> 1
      [] significance = "notable" -> 2
      [] significance = "minor" -> 3
      [] OTHER -> 4

\* key(a) < key(b) for key = (priority_order[significance], -exactness)
KeyLess(a, b) ==
    \/ priority_order(a.significance) < priority_order(b.significance)
    \/ /\ priority_order(a.significance) = priority_order(b.significance)
       /\ a.exactness > b.exactness

\* list.sort is stable: x goes after every element whose key is not greater.
InsertSorted(sorted, x) ==
    LET k == Cardinality({i \in 1..Len(sorted) : ~KeyLess(x, sorted[i])})
    IN  SubSeq(sorted, 1, k) \o <<x>> \o SubSeq(sorted, k + 1, Len(sorted))

RECURSIVE SortTransits(_, _)
SortTransits(entries, n) ==
    IF n = 0 THEN <<>> ELSE InsertSorted(SortTransits(entries, n - 1), entries[n])

IsMajor(t) == t.significance \in {"critical", "major"}

IsChallenging(t) == t.nature = "challenging"

IsHarmonious(t) == t.nature = "harmonious"

\* major_transits = [t for t in active_transits if t["significance"] in ["critical", "major"]]
MajorTransitsAll(active_transits) == active_transits
MajorTransits(active_transits) == SelectSeq(active_transits, IsMajor)

OverallTone(challenging, harmonious) ==
    IF Len(challenging) > Len(harmonious) THEN "challenging"
    ELSE IF Len(harmonious) > Len(challenging) THEN "favorable"
    ELSE "mixed"

\* calculate_transit_effects(natal_planets, transit_time): transit_time is never
\* read; the positions are get_current_transits() of the wall clock.
calculate_transit_effects(natal, time) ==
    LET current_transits == get_current_transits(utc_now)
        active_transits ==
            LET found == AspectLoop(current_transits, natal, 1, 1)
            IN  SortTransits(found, Len(found))
        major_transits == MajorTransits(active_transits)
        challenging == SelectSeq(major_transits, IsChallenging)
        harmonious == SelectSeq(major_transits, IsHarmonious)
    IN  [called |-> TRUE,
         transit_time |-> utc_now,
         current_positions |-> current_transits,
         active_transits |-> active_transits,
         summary |-> [total_aspects |-> Len(active_transits),
                      major_transits |-> Len(major_transits),
                      challenging_count |-> Len(challenging),
                      harmonious_count |-> Len(harmonious),
                      overall_tone |-> OverallTone(challenging, harmonious)]]

CallCalculateTransitEffects ==
    /\ ~transit_effects.called
    /\ transit_effects' = calculate_transit_effects(natal_planets, transit_time)
    /\ UNCHANGED <<natal_planets, transit_time, utc_now, ephemeris,
                   svc_vars, asp_vars, dasha_vars, match_vars, house_vars, div_vars,
                   route_vars, yoga_vars, panchang_vars>>

\* The days the wall clock and transit_time are sampled at: 2020-01-01 and
\* 2040-01-01 (mean Rahu at 334 and 308 degrees).
TransitDays == {7305, 14610}

\* Skies the ephemeris may report: Mercury and Venus stay near the Sun, Mars is
\* held at 100 degrees.
SkySamples ==
    { [Sun |-> sun, Moon |-> moon, Mars |-> 100,
       Mercury |-> (sun + 15) % FullCircle, Jupiter |-> jupiter,
       Venus |-> (sun + 330) % FullCircle, Saturn |-> saturn] :
        sun \in {2, 190}, moon \in {70, 280},
        jupiter \in {10, 96, 130}, saturn \in {100, 190, 310} }

\* TransitRequest.natal_planets is Dict[str, float] with no range constraint:
\* the longitudes sampled include one beyond 360.
NatalLongitudes == {10, 100, 365}

NatalDicts ==
    { << <<"Moon", m>> >> : m \in NatalLongitudes }
        \cup { << <<"Moon", m>>, <<"Sun", su>> >> : m \in NatalLongitudes, su \in NatalLongitudes }

TransitInit ==
    /\ ServiceIdle
    /\ AspectIdle
    /\ DashaIdle
    /\ MatchingIdle
    /\ HouseIdle
    /\ DivisionalIdle
    /\ RouteIdle
    /\ YogaIdle
    /\ PanchangIdle
    /\ natal_planets \in NatalDicts
    /\ transit_time \in {[given |-> FALSE]} \cup {[given |-> TRUE, day |-> d] : d \in TransitDays}
    /\ utc_now \in TransitDays
    /\ ephemeris \in [TransitDays -> SkySamples]
    /\ transit_effects = [called |-> FALSE]

TransitNext == CallCalculateTransitEffects

SpecTransit == TransitInit /\ [][TransitNext]_vars

\* C17: a natal longitude outside [0, 360) submitted for transit analysis is
\* rejected before any aspect calculation: the call ends in an error, and no
\* aspect entry is reported for that natal longitude.
C17_OutOfRangeNatalRejected ==
    (transit_effects.called
        /\ \E j \in 1..Len(natal_planets) : natal_planets[j][2] \notin Longitudes)
    => /\ "error" \in DOMAIN transit_effects
       /\ "active_transits" \in DOMAIN transit_effects =>
             \A i \in 1..Len(transit_effects.active_transits) :
                 transit_effects.active_transits[i].natal_longitude \in Longitudes

\* The day whose sky a call is asked about: transit_time when given, the wall
\* clock otherwise.
RequestedDay == IF transit_time.given THEN transit_time.day ELSE utc_now

\* C18: when calculate_transit_effects is given an explicit transit_time, the
\* positions it reports (and hence the aspects) are those of that time; the
\* wall clock is used only when transit_time is omitted.
C18_TransitTimeHonoured ==
    transit_effects.called =>
        /\ \A i \in 1..Len(PlanetKeys) :
              transit_effects.current_positions[i]
                  = <<PlanetKeys[i], ephemeris[RequestedDay][PlanetKeys[i]]>>
        /\ transit_effects.current_positions[Len(PlanetKeys) + 1]
              = <<"Rahu", RahuLon(RequestedDay)>>

\* The number of aspects of a nature among those cast by the given bodies.
CountBy(entries, bodies, nature) ==
    Cardinality({i \in 1..Len(entries) :
                    entries[i].transit_planet \in bodies /\ entries[i].nature = nature})

\* C20: the overall tone is decided only by the aspects cast by Jupiter,
\* Saturn, Rahu and Ketu, which are exactly those of significance major or
\* critical: challenging when more of them are challenging than harmonious,
\* favorable when more are harmonious, mixed on a tie.
C20_ToneBySlowPlanetsOnly ==
    transit_effects.called =>
        LET entries == transit_effects.active_transits
            slow == {"Jupiter", "Saturn", "Rahu", "Ketu"}
            c == CountBy(entries, slow, "challenging")
            h == CountBy(entries, slow, "harmonious")
        IN  /\ \A i \in 1..Len(entries) :
                  entries[i].transit_planet \in slow
                      <=> entries[i].significance \in {"major", "critical"}
            /\ transit_effects.summary.overall_tone =
                  (IF c > h THEN "challenging" ELSE IF h > c THEN "favorable" ELSE "mixed")
            /\ transit_effects.summary.challenging_count = c
            /\ transit_effects.summary.harmonious_count = h

\* A favorable report in which, counting the fast bodies too, the challenging
\* aspects outnumber the harmonious ones.
C20_Witness ==
    /\ transit_effects.called
    /\ transit_effects.summary.overall_tone = "favorable"
    /\ LET entries == transit_effects.active_transits
           all == {entries[i].transit_planet : i \in 1..Len(entries)}
       IN  CountBy(entries, all, "challenging") > CountBy(entries, all, "harmonious")

\* C21: for every angular separation at most one of the five (angle, orb)
\* windows contains it, so the aspect calculate_aspect returns is the one of
\* the only window holding the separation, whatever the order of the tests.
C21_WindowsDisjoint ==
    aspect_data.called =>
        LET diff == Separation(transit_lon, natal_lon)
            holding == {i \in 1..Len(ASPECTS) : InOrb(diff, ASPECTS[i])}
        IN  /\ diff \in 0..(FullCircle \div 2)
            /\ Cardinality(holding) <= 1
            /\ \A i \in holding : aspect_data.aspect = ASPECTS[i].name
            /\ holding = {} => aspect_data.aspect = None

\* A separation on the edge of the sextile window, the narrowest one.
C21_Witness ==
    /\ aspect_data.called
    /\ transit_lon = 0
    /\ natal_lon = 64
    /\ aspect_data.aspect = "sextile"


\* ==========================================================================
\* internal/routes.py: the date of /horoscope/daily, /horoscope/daily/batch
\* and /panchang.  The request models accept a date only when it matches
\* ^\d{4}-\d{2}-\d{2}$, so a given date is three numbers: 0..9999, 0..99, 0..99.
\* ==========================================================================
Endpoints == {"daily", "batch", "panchang"}

IsLeap(year) == (year % 4 = 0 /\ year % 100 # 0) \/ year % 400 = 0

DaysInMonth(year, month) ==
    IF month = 2 THEN (IF IsLeap(year) THEN 29 ELSE 28)
    ELSE IF month \in {4, 6, 9, 11} THEN 30 ELSE 31

\* datetime.strptime(request.date, "%Y-%m-%d") returns a datetime exactly when
\* the numbers name a calendar date of years 1..9999; otherwise ValueError.
strptime_ok(d) ==
    /\ d.year >= 1
    /\ d.month \in 1..12
    /\ d.day \in 1..DaysInMonth(d.year, d.month)

\* The "Parse date" block shared by the three handlers: the inner
\* except ValueError raises HTTPException(status_code=400).
ParseDate(d) ==
    IF d.given /\ ~strptime_ok(d) THEN "HTTPException400" ELSE "parsed"

\* What leaves the body of the outer try: the inner HTTPException, or
\* whatever the generator called after the parse does.
TryBody(d, gen) ==
    IF ParseDate(d) = "HTTPException400" THEN "HTTPException400" ELSE gen

\* get_daily_horoscope: except ValueError -> 400; except Exception -> 500.
\* HTTPException is an Exception and not a ValueError.
get_daily_horoscope(d, gen) ==
    LET raised == TryBody(d, gen)
    IN  IF raised = "returns" THEN 200
        ELSE IF raised = "ValueError" THEN 400
        ELSE 500

\* get_batch_horoscopes: except Exception -> 500.
get_batch_horoscopes(d, gen) ==
    LET raised == TryBody(d, gen)
    IN  IF raised = "returns" THEN 200 ELSE 500

\* get_panchang: except HTTPException: raise; except Exception -> 500.
get_panchang(d, gen) ==
    LET raised == TryBody(d, gen)
    IN  IF raised = "returns" THEN 200
        ELSE IF raised = "HTTPException400" THEN 400
        ELSE 500

HandleRequest ==
    /\ ~response.sent
    /\ response' = [sent |-> TRUE,
                    status |-> CASE endpoint = "daily" ->
                                        get_daily_horoscope(request_date, downstream)
                                 [] endpoint = "batch" ->
                                        get_batch_horoscopes(request_date, downstream)
                                 [] OTHER ->
                                        get_panchang(request_date, downstream)]
    /\ UNCHANGED <<endpoint, request_date, downstream,
                   svc_vars, asp_vars, dasha_vars, match_vars, house_vars, div_vars,
                   transit_vars, yoga_vars, panchang_vars>>

RequestYears == {0, 1, 2023, 2024}
RequestMonths == {0, 1, 2, 4, 12, 13}
RequestDays == {0, 1, 28, 29, 30, 31, 32}
RequestDates ==
    {[given |-> FALSE]} \cup
    {[given |-> TRUE, year |-> y, month |-> mo, day |-> dy] :
        y \in RequestYears, mo \in RequestMonths, dy \in RequestDays}

RouteInit ==
    /\ ServiceIdle
    /\ AspectIdle
    /\ DashaIdle
    /\ MatchingIdle
    /\ HouseIdle
    /\ DivisionalIdle
    /\ TransitIdle
    /\ YogaIdle
    /\ PanchangIdle
    /\ endpoint \in Endpoints
    /\ request_date \in RequestDates
    /\ downstream \in {"returns", "ValueError", "Exception"}
    /\ response = [sent |-> FALSE]

RouteNext == HandleRequest

SpecRoutes == RouteInit /\ [][RouteNext]_vars

\* C22: a date that matches YYYY-MM-DD but names no calendar date (month 13,
\* day 32, 30 February, year 0000) is answered with HTTP 400 by the daily
\* horoscope, batch horoscope and panchang endpoints, never with 500.
C22_InvalidDateIs400 ==
    (response.sent /\ request_date.given /\ ~strptime_ok(request_date))
        => response.status = 400

\* C23: the 'same rashi' branch of calculate_vashya is dead.  Two equal rashis
\* have equal Vashya categories, so the first branch takes them, and the
\* description 'Same rashi - good compatibility' is never produced.
C23_SameRashiBranchDead ==
    compatibility.called =>
        LET vashya == compatibility.koots[2]
            bride_rashi == get_rashi_from_moon(bride_moon_longitude).name
            groom_rashi == get_rashi_from_moon(groom_moon_longitude).name
        IN  /\ vashya.name = "Vashya"
            /\ vashya.description # "Same rashi - good compatibility"
            /\ bride_rashi = groom_rashi =>
                   vashya.description = "Same Vashya type - excellent mutual attraction"

C23_Witness ==
    /\ compatibility.called
    /\ bride_moon_longitude = 125 /\ groom_moon_longitude = 140
    /\ compatibility.koots[2].description
           = "Same Vashya type - excellent mutual attraction"
    /\ compatibility.koots[2].bride_value = "Vanachara"

\* C24: whenever calculate_vimsottari_dasha reports a current_mahadasha it
\* also reports a current_antardasha, one of the Antardashas of that
\* Mahadasha flagged is_current, for every birth input and evaluation instant.
C24_CurrentMahaHasCurrentAntar ==
    (dasha.called /\ dasha.current_mahadasha # None) =>
        /\ dasha.current_antardasha # None
        /\ \E i \in 1..Len(dasha.mahadashas) :
              /\ dasha.mahadashas[i].planet = dasha.current_mahadasha
              /\ dasha.mahadashas[i].is_current
              /\ \E j \in 1..9 :
                    /\ dasha.mahadashas[i].antardashas[j].is_current
                    /\ dasha.mahadashas[i].antardashas[j].planet
                           = dasha.current_antardasha

\* ==========================================================================
\* internal/yogas.py: detect_yogas and its five detectors.  A yoga entry is a
\* record; its f-string texts are tuples of their parts.  The entries of one
\* report are pairwise different, and the order of the Raja Yoga entries
\* follows the iteration order of two Python sets, so the list of yogas is
\* modelled as the set of its entries.
\* ==========================================================================
YOGA_RASHI_LORDS == <<
    "Mars", "Venus", "Mercury", "Moon",
    "Sun", "Mercury", "Venus", "Mars",
    "Jupiter", "Saturn", "Saturn", "Jupiter" >>

EXALTATION ==
    [Sun |-> 1, Moon |-> 2, Mars |-> 10, Mercury |-> 6,
     Jupiter |-> 4, Venus |-> 12, Saturn |-> 7]

DEBILITATION ==
    [Sun |-> 7, Moon |-> 8, Mars |-> 4, Mercury |-> 12,
     Jupiter |-> 10, Venus |-> 6, Saturn |-> 1]

KENDRAS == {1, 4, 7, 10}

TRIKONAS == {1, 5, 9}

\* EXALTATION.get(planet) == rashi; None equals no rashi
is_exalted(planet, rashi) ==
    planet \in DOMAIN EXALTATION /\ EXALTATION[planet] = rashi

is_debilitated(planet, rashi) ==
    planet \in DOMAIN DEBILITATION /\ DEBILITATION[planet] = rashi

\* rashi = ((asc_rashi - 1 + house - 1) % 12) + 1
HouseRashi(asc_rashi, house) == ((asc_rashi - 1 + house - 1) % 12) + 1

HouseLords(asc_rashi, houses) ==
    {YOGA_RASHI_LORDS[HouseRashi(asc_rashi, house)] : house \in houses}

\* planets.get(name, {}) is non-empty exactly when name is a key
Present(planets, name) == name \in DOMAIN planets

detect_raj_yogas(planets, asc_rashi) ==
    LET kendra_lords == HouseLords(asc_rashi, KENDRAS)
        trikona_lords == HouseLords(asc_rashi, TRIKONAS)
    IN  { [name |-> <<"Raja Yoga", kl, tl>>,
           type |-> "raja",
           planets |-> <<kl, tl>>,
           description |-> <<"Kendra lord", kl, "conjunct Trikona lord", tl>>,
           strength |-> "strong"] :
          <<kl, tl>> \in
              { pair \in kendra_lords \X trikona_lords :
                  /\ pair[1] # pair[2]
                  /\ Present(planets, pair[1]) /\ Present(planets, pair[2])
                  /\ planets[pair[1]].rashi = planets[pair[2]].rashi } }

detect_dhana_yogas(planets, asc_rashi) ==
    LET second_rashi == ((asc_rashi - 1 + 1) % 12) + 1
        eleventh_rashi == ((asc_rashi - 1 + 10) % 12) + 1
        second_lord == YOGA_RASHI_LORDS[second_rashi]
        eleventh_lord == YOGA_RASHI_LORDS[eleventh_rashi]
        lords ==
            IF Present(planets, second_lord) /\ Present(planets, eleventh_lord)
            THEN IF planets[second_lord].rashi = planets[eleventh_lord].rashi
                 THEN { [name |-> <<"Dhana Yoga (2nd-11th)">>,
                         type |-> "dhana",
                         planets |-> <<second_lord, eleventh_lord>>,
                         description |-> <<"2nd lord", second_lord,
                                           "conjunct 11th lord", eleventh_lord>>,
                         strength |-> "strong"] }
                 ELSE IF /\ planets[second_lord].house \in KENDRAS
                         /\ planets[eleventh_lord].house \in KENDRAS
                 THEN { [name |-> <<"Dhana Yoga (Kendra)">>,
                         type |-> "dhana",
                         planets |-> <<second_lord, eleventh_lord>>,
                         description |-> <<"2nd and 11th lords in Kendras">>,
                         strength |-> "moderate"] }
                 ELSE {}
            ELSE {}
        jupiter ==
            IF Present(planets, "Jupiter") /\ planets["Jupiter"].house \in {2, 5, 9, 11}
            THEN { [name |-> <<"Jupiter Wealth Yoga">>,
                    type |-> "dhana",
                    planets |-> <<"Jupiter">>,
                    description |-> <<"Jupiter in house",
                                      ToString(planets["Jupiter"].house)>>,
                    strength |-> "moderate"] }
            ELSE {}
    IN  lords \cup jupiter

detect_gaja_kesari(planets) ==
    IF ~Present(planets, "Moon") \/ ~Present(planets, "Jupiter") THEN {}
    ELSE LET moon_rashi == planets["Moon"].rashi
             jup_rashi == planets["Jupiter"].rashi
             diff == IF Abs(moon_rashi - jup_rashi) = 0 THEN 1
                     ELSE ((jup_rashi - moon_rashi) % 12) + 1
         IN  IF diff \in {1, 4, 7, 10}
             THEN { [name |-> <<"Gaja Kesari Yoga">>,
                     type |-> "prosperity",
                     planets |-> <<"Moon", "Jupiter">>,
                     description |-> <<"Jupiter in kendra from Moon">>,
                     strength |-> IF diff = 1 THEN "strong" ELSE "moderate"] }
             ELSE {}

mahapurusha ==
    [Mars |-> "Ruchaka", Mercury |-> "Bhadra", Jupiter |-> "Hamsa",
     Venus |-> "Malavya", Saturn |-> "Shasha"]

detect_pancha_mahapurusha(planets, asc_rashi) ==
    { [name |-> <<mahapurusha[planet], "Yoga">>,
       type |-> "mahapurusha",
       planets |-> <<planet>>,
       description |-> <<planet, "in kendra in own sign/exaltation">>,
       strength |-> "very strong"] :
      planet \in
          { q \in DOMAIN mahapurusha :
              /\ Present(planets, q)
              /\ planets[q].house \in KENDRAS
              /\ LET own_signs == {i \in 1..12 : YOGA_RASHI_LORDS[i] = q}
                 IN  planets[q].rashi \in own_signs
                        \/ planets[q].rashi = EXALTATION[q] } }

detect_neecha_bhanga(planets) ==
    { [name |-> <<"Neecha Bhanga Raja Yoga">>,
       type |-> "raja",
       planets |-> <<planet_name, YOGA_RASHI_LORDS[planets[planet_name].rashi]>>,
       description |-> <<planet_name, "'s debilitation cancelled by",
                         YOGA_RASHI_LORDS[planets[planet_name].rashi], "in kendra">>,
       strength |-> "strong"] :
      planet_name \in
          { q \in DOMAIN planets :
              /\ q \notin {"Rahu", "Ketu"}
              /\ is_debilitated(q, planets[q].rashi)
              /\ LET debil_lord == YOGA_RASHI_LORDS[planets[q].rashi]
                 IN  Present(planets, debil_lord)
                        /\ planets[debil_lord].house \in KENDRAS } }

\* name = p.get("name", ""); lon = p.get("fullDegree", p.get("full_degree", 0))
EntryName(p) == DictGet(p, "name", "")

EntryLon(p) == DictGet(p, "fullDegree", DictGet(p, "full_degree", 0))

\* The conversion loop of detect_yogas from entry i on: an entry is skipped
\* when `not name or not lon`; a later entry of the same name replaces an
\* earlier one.
RECURSIVE ResolvePlanets(_, _, _, _)
ResolvePlanets(list, i, a_lon, planets) ==
    IF i > Len(list) THEN planets
    ELSE LET name == EntryName(list[i])
             lon == EntryLon(list[i])
         IN  IF name = "" \/ lon = 0
             THEN ResolvePlanets(list, i + 1, a_lon, planets)
             ELSE LET rashi == get_rashi_from_lon(lon)
                      data == [longitude |-> lon,
                               rashi |-> rashi,
                               house |-> get_house_from_lon(lon, a_lon),
                               is_exalted |-> is_exalted(name, rashi),
                               is_debilitated |-> is_debilitated(name, rashi)]
                  IN  ResolvePlanets(list, i + 1, a_lon,
                          [k \in DOMAIN planets \cup {name} |->
                              IF k = name THEN data ELSE planets[k]])

detect_yogas(list, a_lon) ==
    LET asc_rashi == get_rashi_from_lon(a_lon)
        planets == ResolvePlanets(list, 1, a_lon, <<>>)
        all_yogas ==
            detect_pancha_mahapurusha(planets, asc_rashi)
                \cup detect_raj_yogas(planets, asc_rashi)
                \cup detect_gaja_kesari(planets)
                \cup detect_dhana_yogas(planets, asc_rashi)
                \cup detect_neecha_bhanga(planets)
        OfType(t) == {y \in all_yogas : y.type = t}
    IN  [called |-> TRUE,
         ascendant_rashi |-> asc_rashi,
         planets |-> planets,
         yogas |-> all_yogas,
         categories |-> [t \in {y.type : y \in all_yogas} |-> OfType(t)],
         summary |->
             [total_yogas |-> Cardinality(all_yogas),
              by_strength |->
                  [st \in {"very strong", "strong", "moderate", "weak"} |->
                      Cardinality({y \in all_yogas : y.strength = st})],
              has_mahapurusha |-> OfType("mahapurusha") # {},
              has_raja_yoga |-> OfType("raja") # {},
              has_dhana_yoga |-> OfType("dhana") # {}]]

CallDetectYogas ==
    /\ ~yoga_report.called
    /\ yoga_report' = detect_yogas(chart_planets, chart_ascendant)
    /\ UNCHANGED <<chart_planets, chart_ascendant,
                   svc_vars, asp_vars, dasha_vars, match_vars, house_vars, div_vars,
                   transit_vars, route_vars, panchang_vars>>

\* Sampled longitudes: 0 Aries, two bodies' worth of Taurus and Leo.
ChartLongitudes == {0, 40, 130}

\* The Sun's entry in its well-formed and ill-formed variants.
SunEntries ==
    { [name |-> "Sun", fullDegree |-> 0],
      [name |-> "Sun", fullDegree |-> 40],
      [name |-> "Sun", full_degree |-> 130],
      [name |-> "Sun"],
      [fullDegree |-> 40] }

OtherBodies == <<"Moon", "Mars", "Mercury", "Jupiter", "Venus", "Saturn">>

ChartLists ==
    { <<sun>> \o [i \in 1..Len(OtherBodies) |->
                     [name |-> OtherBodies[i], fullDegree |-> lons[i]]] :
        sun \in SunEntries,
        lons \in [1..Len(OtherBodies) -> ChartLongitudes] }

\* Ascendants in Aries, Taurus, Leo and Aquarius.
ChartAscendants == {0, 40, 130, 310}

YogaInit ==
    /\ ServiceIdle
    /\ AspectIdle
    /\ DashaIdle
    /\ MatchingIdle
    /\ HouseIdle
    /\ DivisionalIdle
    /\ TransitIdle
    /\ RouteIdle
    /\ PanchangIdle
    /\ chart_planets \in ChartLists
    /\ chart_ascendant \in ChartAscendants
    /\ yoga_report = [called |-> FALSE]

YogaNext == CallDetectYogas

SpecYogas == YogaInit /\ [][YogaNext]_vars

\* C25: every entry of planets_list that has a name and a longitude in
\* [0, 360) appears in the returned planets map with its sign and house,
\* a body at exactly 0 degrees included.
C25_EveryPlanetResolved ==
    yoga_report.called =>
        \A i \in 1..Len(chart_planets) :
            LET name == EntryName(chart_planets[i])
                given == {"fullDegree", "full_degree"} \cap DOMAIN chart_planets[i] # {}
                lon == EntryLon(chart_planets[i])
            IN  (name # "" /\ given /\ lon \in 0..(FullCircle - 1)) =>
                    /\ name \in DOMAIN yoga_report.planets
                    /\ yoga_report.planets[name].rashi = get_rashi_from_lon(lon)
                    /\ yoga_report.planets[name].house
                           = get_house_from_lon(lon, chart_ascendant)

\* C26: detect_raj_yogas reports each unordered pair of distinct planets at
\* most once, also when both planets are kendra lords and trikona lords.
C26_RajPairOnce ==
    yoga_report.called =>
        \A y1, y2 \in yoga_report.yogas :
            (/\ y1.name[1] = "Raja Yoga" /\ y2.name[1] = "Raja Yoga"
             /\ {y1.planets[1], y1.planets[2]} = {y2.planets[1], y2.planets[2]})
                => y1 = y2

\* C27: a 'Dhana Yoga (2nd-11th)' entry names two different bodies as the
\* 2nd-house lord and the 11th-house lord, for every ascendant sign.
C27_DhanaLordsDistinct ==
    yoga_report.called =>
        \A y \in yoga_report.yogas :
            y.name = <<"Dhana Yoga (2nd-11th)">> => y.planets[1] # y.planets[2]

\* C28: D9 is continuous across the zodiac: for every longitude in [0, 360)
\* the D9 sign is ((floor(longitude / (30/9)) mod 12) + 1), the 108 navamsas
\* running through the 12 signs in order from Aries with no jump at a sign
\* boundary.  floor(longitude / (30/9)) = floor(3 * longitude / 10).
C28_NavamsaContinuous ==
    (positions.called /\ longitude \in 0..(FullCircle - 1)) =>
        /\ ~IsError(positions.D9)
        /\ positions.D9.rashi = (((3 * longitude) \div 10) % 12) + 1
        /\ positions.D9.sign = SIGNS[(((3 * longitude) \div 10) % 12) + 1]

\* The first navamsa of Taurus, the tenth of the zodiac.
C28_Witness ==
    /\ positions.called
    /\ longitude = 30
    /\ positions.D9.navamsa_number = 1
    /\ positions.D9.sign = "Capricorn"

\* C29: for every pair of Moon longitudes in [0, 360), exchanging bride and
\* groom leaves the Vashya, Tara, Yoni, Graha Maitri, Gana, Bhakoot and Nadi
\* scores unchanged; only Varna can differ, so the total changes by at most
\* 1 point.
C29_SwapChangesVarnaOnly ==
    compatibility.called =>
        LET swapped == calculate_compatibility(groom_moon_longitude, bride_moon_longitude)
        IN  /\ \A i \in 2..8 :
                  /\ compatibility.koots[i].name = swapped.koots[i].name
                  /\ compatibility.koots[i].score = swapped.koots[i].score
            /\ compatibility.koots[1].name = "Varna"
            /\ Abs(compatibility.total_score - swapped.total_score) <= HalfPoints(1)
            /\ compatibility.total_score - swapped.total_score
                   = compatibility.koots[1].score - swapped.koots[1].score

\* A Taurus bride (varna 3) and an Aries groom (varna 2): Varna scores 1, and
\* 0 after the exchange; the Gana pair is Manushya with Deva.
C29_Witness ==
    /\ compatibility.called
    /\ bride_moon_longitude = 45 /\ groom_moon_longitude = 5
    /\ compatibility.koots[1].score
           # calculate_compatibility(groom_moon_longitude, bride_moon_longitude).koots[1].score
    /\ compatibility.koots[6].score = HalfPoints(5)

\* ==========================================================================
\* internal/panchang.py: calculate_panchang.  The sidereal longitudes of Sun
\* and Moon come from the ephemeris (planetary.py, skyfield) and are inputs,
\* in whole degrees.  A name is the tuple of its words.  sunrise and sunset
\* (calculate_sun_times, trigonometry on date and place) feed no other field
\* and are left out.
\* ==========================================================================
TITHIS == <<
    "Pratipada", "Dwitiya", "Tritiya", "Chaturthi", "Panchami",
    "Shashthi", "Saptami", "Ashtami", "Navami", "Dashami",
    "Ekadashi", "Dwadashi", "Trayodashi", "Chaturdashi", "Purnima",
    "Pratipada", "Dwitiya", "Tritiya", "Chaturthi", "Panchami",
    "Shashthi", "Saptami", "Ashtami", "Navami", "Dashami",
    "Ekadashi", "Dwadashi", "Trayodashi", "Chaturdashi", "Amavasya" >>

PANCHANG_NAKSHATRAS == <<
    <<"Ashwini">>, <<"Bharani">>, <<"Krittika">>, <<"Rohini">>, <<"Mrigashira">>,
    <<"Ardra">>, <<"Punarvasu">>, <<"Pushya">>, <<"Ashlesha">>, <<"Magha">>,
    <<"Purva", "Phalguni">>, <<"Uttara", "Phalguni">>, <<"Hasta">>, <<"Chitra">>,
    <<"Swati">>, <<"Vishakha">>, <<"Anuradha">>, <<"Jyeshtha">>, <<"Mula">>,
    <<"Purva", "Ashadha">>, <<"Uttara", "Ashadha">>, <<"Shravana">>,
    <<"Dhanishtha">>, <<"Shatabhisha">>, <<"Purva", "Bhadrapada">>,
    <<"Uttara", "Bhadrapada">>, <<"Revati">> >>

YOGAS == <<
    "Vishkambha", "Priti", "Ayushman", "Saubhagya", "Shobhana",
    "Atiganda", "Sukarma", "Dhriti", "Shoola", "Ganda",
    "Vriddhi", "Dhruva", "Vyaghata", "Harshana", "Vajra",
    "Siddhi", "Vyatipata", "Variyan", "Parigha", "Shiva",
    "Siddha", "Sadhya", "Shubha", "Shukla", "Brahma",
    "Indra", "Vaidhriti" >>

KARANAS == <<
    "Bava", "Balava", "Kaulava", "Taitila", "Gara",
    "Vanija", "Vishti", "Shakuni", "Chatushpada", "Naga", "Kimstughna" >>

vara_names == <<
    "Ravivara", "Somavara", "Mangalavara", "Budhavara",
    "Guruvara", "Shukravara", "Shanivara" >>

\* int(lon / (360 / 27))
NakshatraIndex(lon) == (lon * 27) \div FullCircle

\* int((lon % (360 / 27)) / (360 / 27 / 4)) + 1.  At a whole-degree pada
\* boundary from 20 degrees on (20, 30, 40, ...) the doubles fall just below
\* the boundary and the pada is that of the quarter before.
NakshatraPada(lon) ==
    LET quarter == (lon * 108) \div FullCircle
    IN  IF lon % 10 = 0 /\ lon >= 20 THEN ((quarter - 1) % 4) + 1
        ELSE (quarter % 4) + 1

Ritu(month) ==
    IF month \in {3, 4} THEN "Vasanta (Spring)"
    ELSE IF month \in {5, 6} THEN "Grishma (Summer)"
    ELSE IF month \in {7, 8} THEN "Varsha (Monsoon)"
    ELSE IF month \in {9, 10} THEN "Sharad (Autumn)"
    ELSE IF month \in {11, 12} THEN "Hemanta (Pre-Winter)"
    ELSE "Shishira (Winter)"

\* NAKSHATRAS[int(lon / 30) % 12].split()[0]
SignField(lon) == Head(PANCHANG_NAKSHATRAS[((lon \div 30) % 12) + 1])

calculate_panchang(date, sun_lon, moon_lon) ==
    LET moon_sun_diff == (moon_lon - sun_lon) % FullCircle
        tithi_num == moon_sun_diff \div 12
        nakshatra_num == NakshatraIndex(moon_lon)
        yoga_num == NakshatraIndex((sun_lon + moon_lon) % FullCircle)
        karana_num == (moon_sun_diff \div 6) % 11
    IN  [called |-> TRUE,
         vara |-> vara_names[date.weekday + 1],
         tithi |-> [name |-> TITHIS[tithi_num + 1],
                    number |-> tithi_num + 1,
                    paksha |-> IF tithi_num < 15 THEN "Shukla Paksha"
                               ELSE "Krishna Paksha"],
         nakshatra |-> [name |-> PANCHANG_NAKSHATRAS[nakshatra_num + 1],
                        number |-> nakshatra_num + 1,
                        pada |-> NakshatraPada(moon_lon)],
         yoga |-> [name |-> YOGAS[yoga_num + 1], number |-> yoga_num + 1],
         karana |-> [name |-> KARANAS[karana_num + 1], number |-> karana_num + 1],
         ritu |-> Ritu(date.month),
         moon_sign |-> SignField(moon_lon),
         sun_sign |-> SignField(sun_lon)]

CallCalculatePanchang ==
    /\ ~panchang.called
    /\ panchang' = calculate_panchang(panchang_date, sun_sidereal, moon_sidereal)
    /\ UNCHANGED <<panchang_date, sun_sidereal, moon_sidereal,
                   svc_vars, asp_vars, dasha_vars, match_vars, house_vars, div_vars,
                   transit_vars, route_vars, yoga_vars>>

\* A Monday in January and a Sunday in July.
PanchangDates == {[month |-> 1, weekday |-> 0], [month |-> 7, weekday |-> 6]}

PanchangInit ==
    /\ ServiceIdle
    /\ AspectIdle
    /\ DashaIdle
    /\ MatchingIdle
    /\ HouseIdle
    /\ DivisionalIdle
    /\ TransitIdle
    /\ RouteIdle
    /\ YogaIdle
    /\ panchang_date \in PanchangDates
    /\ sun_sidereal \in Longitudes
    /\ moon_sidereal \in Longitudes
    /\ panchang = [called |-> FALSE]

PanchangNext == CallCalculatePanchang

SpecPanchang == PanchangInit /\ [][PanchangNext]_vars

\* C30: moon_sign and sun_sign of a panchang result name the zodiac sign (one
\* of the 12 rashi names, Aries..Pisces) that contains the sidereal Moon and
\* Sun longitude, the sign of index floor(longitude / 30).
C30_SignFieldsNameRashi ==
    panchang.called =>
        /\ panchang.moon_sign = RASHIS[(moon_sidereal \div 30) + 1]
        /\ panchang.sun_sign = RASHIS[(sun_sidereal \div 30) + 1]

====
